---------------------------- MODULE Spec2Model ----------------------------
(***************************************************************************)
(* Model of the numerical core of the unsteady MHD Couette flow app:       *)
(* solveUnsteadyMHDCouette, validateParameters, computeNanofluidProperties *)
(* and TransientOptimizer.                                                 *)
(*                                                                         *)
(* NUMBERS.  A JavaScript number is modelled as a fixed-point value with   *)
(* ONE units per 1.0, rounded to the nearest unit after every              *)
(* multiplication and division, plus the three IEEE specials NaN,          *)
(* +Infinity and -Infinity, which follow the IEEE rules (x/0, 0*Infinity,  *)
(* comparisons with NaN being false, Math.max returning NaN on NaN).       *)
(* Loop counters, lengths and grid sizes are plain integers.               *)
(***************************************************************************)
EXTENDS Integers, Sequences, FiniteSets, TLC

ONE == 1000

NaN == 2000000000
PInf == 1999999999
NInf == -1999999999

IsNaN(x) == x = NaN
IsInf(x) == x = PInf \/ x = NInf
IsFin(x) == ~IsNaN(x) /\ ~IsInf(x)

Sgn(x) == IF x > 0 THEN 1 ELSE IF x < 0 THEN -1 ELSE 0

\* integer literal k as a number
Num(k) == k * ONE

\* nearest integer to x/y, y # 0
RDiv(x, y) ==
  LET ax == IF x < 0 THEN -x ELSE x
      ay == IF y < 0 THEN -y ELSE y
      q  == (2 * ax + ay) \div (2 * ay)
  IN  IF Sgn(x) * Sgn(y) < 0 THEN -q ELSE q

FNeg(a) == IF IsNaN(a) THEN NaN ELSE IF a = PInf THEN NInf ELSE IF a = NInf THEN PInf ELSE -a

FAdd(a, b) ==
  IF IsNaN(a) \/ IsNaN(b) THEN NaN
  ELSE IF IsInf(a) /\ IsInf(b) THEN (IF a = b THEN a ELSE NaN)
  ELSE IF IsInf(a) THEN a
  ELSE IF IsInf(b) THEN b
  ELSE a + b

FSub(a, b) == FAdd(a, FNeg(b))

FMul(a, b) ==
  IF IsNaN(a) \/ IsNaN(b) THEN NaN
  ELSE IF IsInf(a) \/ IsInf(b)
       THEN (IF a = 0 \/ b = 0 THEN NaN
             ELSE IF Sgn(a) * Sgn(b) > 0 THEN PInf ELSE NInf)
  ELSE RDiv(a * b, ONE)

FDiv(a, b) ==
  IF IsNaN(a) \/ IsNaN(b) THEN NaN
  ELSE IF IsInf(a) /\ IsInf(b) THEN NaN
  ELSE IF IsInf(b) THEN 0
  ELSE IF IsInf(a) THEN (IF Sgn(a) * Sgn(b) >= 0 THEN PInf ELSE NInf)
  ELSE IF b = 0 THEN (IF a = 0 THEN NaN ELSE IF a > 0 THEN PInf ELSE NInf)
  ELSE RDiv(a * ONE, b)

\* Math.abs
FAbs(a) == IF IsNaN(a) THEN NaN ELSE IF IsInf(a) THEN PInf ELSE IF a < 0 THEN -a ELSE a

\* Math.max / Math.min of two numbers
FMax(a, b) == IF IsNaN(a) \/ IsNaN(b) THEN NaN ELSE IF a >= b THEN a ELSE b
FMin(a, b) == IF IsNaN(a) \/ IsNaN(b) THEN NaN ELSE IF a <= b THEN a ELSE b

\* the comparisons <, >, >=, <= of two numbers (false when either is NaN)
FLt(a, b) == ~IsNaN(a) /\ ~IsNaN(b) /\ a < b
FGt(a, b) == ~IsNaN(a) /\ ~IsNaN(b) /\ a > b
FGe(a, b) == ~IsNaN(a) /\ ~IsNaN(b) /\ a >= b
FLe(a, b) == ~IsNaN(a) /\ ~IsNaN(b) /\ a <= b

\* Math.floor(a / b) of two finite numbers, as an integer or a special
FloorDiv(a, b) ==
  IF b = 0 THEN (IF a = 0 THEN NaN ELSE IF a > 0 THEN PInf ELSE NInf)
  ELSE IF b > 0 THEN a \div b
  ELSE (-a) \div (-b)

\* arr[i] of a 0-based JavaScript array held as a 1-based sequence; a read
\* outside the array is undefined, which is NaN in arithmetic
At(arr, i) == IF i >= 0 /\ i < Len(arr) THEN arr[i + 1] ELSE NaN

\* arr[i] = v on an existing element (i within the array)
Put(arr, i, v) == IF i >= 0 /\ i < Len(arr) THEN [arr EXCEPT ![i + 1] = v] ELSE arr


(***************************************************************************)
(* solveUnsteadyMHDCouette                                                 *)
(***************************************************************************)

\* bound on the step counter n, reached only when Nt is infinite (dtau = 0)
MaxSteps == 7

\* the Picard iteration budget and the convergence tolerance: 1e-10 lies
\* below the resolution 1/ONE, so maxDiff < 1e-10 is maxDiff < 1 unit
MaxPicard == 15
Tol == 1

\* PRESETS.baseline
BasePreset ==
  [A1 |-> 1200, A2 |-> 1500, A3 |-> 1300, A4 |-> 1100, A5 |-> 1150,
   Re |-> 1000, Ha |-> 2000, Pr |-> 6200, Ec |-> 100, Bi |-> 500,
   lambda |-> 100, G |-> 500]

\* const h = 1.0 / N
GridH(N) == FDiv(ONE, Num(N))

\* const eta = Array.from({ length: N + 1 }, (_, i) => i * h)
Eta(N) == [k \in 1..(N + 1) |-> FMul(Num(k - 1), GridH(N))]

\* W[i] = eta[i] * Re / (1 + lambda)
InitialW(p) == [k \in 1..(p.N + 1) |-> FDiv(FMul(Eta(p.N)[k], p.Re), FAdd(ONE, p.lambda))]

\* Theta[i] = 1 - (Bi / (1 + Bi)) * eta[i]
InitialTheta(p) ==
  [k \in 1..(p.N + 1) |-> FSub(ONE, FMul(FDiv(p.Bi, FAdd(ONE, p.Bi)), Eta(p.N)[k]))]

\* the derivative array: central differences inside, one-sided at the ends,
\* written in the code's order (interior, then [0], then [N])
Deriv(f, N) ==
  LET h == GridH(N)
      inner == [k \in 1..(N + 1) |->
                  IF k - 1 >= 1 /\ k - 1 < N
                  THEN FDiv(FSub(At(f, k), At(f, k - 2)), FMul(Num(2), h))
                  ELSE 0]
      lo == Put(inner, 0, FDiv(FSub(At(f, 1), At(f, 0)), h))
  IN  Put(lo, N, FDiv(FSub(At(f, N), At(f, N - 1)), h))

\* SlipValue with the upper plate treated as a no-slip wall
SlipValue_NoSlip(p, below) == p.Re

\* SlipValue with a slip length of 0 replaced by a default of 0.1
SlipValue_DefaultedLambda(p, below) ==
  LET h == GridH(p.N)
      la == IF p.lambda = 0 THEN 100 ELSE p.lambda
  IN  FDiv(FAdd(p.Re, FDiv(FMul(la, below), h)), FAdd(ONE, FDiv(la, h)))

\* (Re + lambda * W[N - 1] / h) / (1 + lambda / h), below = W[N - 1]
SlipValue(p, below) ==
  LET h == GridH(p.N)
  IN  FDiv(FAdd(p.Re, FDiv(FMul(p.lambda, below), h)), FAdd(ONE, FDiv(p.lambda, h)))

\* UpdateW with the two boundary conditions applied at the wrong ends
UpdateW_EndsSwapped(p, dtau, W, W_old) ==
  LET N == p.N
      h == GridH(N)
      coeff == FDiv(p.A1, FMul(h, h))
      diag == FAdd(FAdd(FDiv(FMul(Num(2), p.A1), FMul(h, h)),
                        FMul(FMul(p.A2, p.Ha), p.Ha)),
                   FDiv(p.A4, dtau))
      inner == [k \in 1..(N + 1) |->
                  IF k - 1 >= 1 /\ k - 1 < N
                  THEN FDiv(FAdd(FAdd(FMul(coeff, FAdd(At(W, k - 2), At(W, k))), p.G),
                                 FMul(FDiv(p.A4, dtau), At(W_old, k - 1))),
                            diag)
                  ELSE W[k]]
      hi == Put(inner, N, 0)
  IN  Put(hi, 0, FDiv(FAdd(p.Re, FDiv(FMul(p.lambda, At(hi, 1)), h)),
                      FAdd(ONE, FDiv(p.lambda, h))))

\* interior velocity update followed by W[0] = 0 and the slip condition at N
UpdateW(p, dtau, W, W_old) ==
  LET N == p.N
      h == GridH(N)
      coeff == FDiv(p.A1, FMul(h, h))
      diag == FAdd(FAdd(FDiv(FMul(Num(2), p.A1), FMul(h, h)),
                        FMul(FMul(p.A2, p.Ha), p.Ha)),
                   FDiv(p.A4, dtau))
      inner == [k \in 1..(N + 1) |->
                  IF k - 1 >= 1 /\ k - 1 < N
                  THEN FDiv(FAdd(FAdd(FMul(coeff, FAdd(At(W, k - 2), At(W, k))), p.G),
                                 FMul(FDiv(p.A4, dtau), At(W_old, k - 1))),
                            diag)
                  ELSE W[k]]
      lo == Put(inner, 0, 0)
  IN  Put(lo, N, SlipValue(p, At(lo, N - 1)))

\* interior temperature update followed by Theta[0] = 1 and the Robin
\* condition at N; Wn is the velocity just updated in this iteration
UpdateTheta(p, dtau, Wn, Theta, Theta_old) ==
  LET N == p.N
      h == GridH(N)
      Wp == Deriv(Wn, N)
      coeff == FDiv(p.A3, FMul(h, h))
      diag == FAdd(FDiv(FMul(Num(2), p.A3), FMul(h, h)), FDiv(FMul(p.A5, p.Pr), dtau))
      source(k) ==
        FAdd(FMul(FMul(FMul(FMul(p.A1, p.Pr), p.Ec), Wp[k]), Wp[k]),
             FMul(FMul(FMul(FMul(FMul(FMul(p.A2, p.Pr), p.Ec), p.Ha), p.Ha), Wn[k]), Wn[k]))
      inner == [k \in 1..(N + 1) |->
                  IF k - 1 >= 1 /\ k - 1 < N
                  THEN FDiv(FAdd(FAdd(FMul(coeff, FAdd(At(Theta, k - 2), At(Theta, k))),
                                      source(k)),
                                 FMul(FDiv(FMul(p.A5, p.Pr), dtau), At(Theta_old, k - 1))),
                            diag)
                  ELSE Theta[k]]
      lo == Put(inner, 0, ONE)
  IN  Put(lo, N, FDiv(At(lo, N - 1), FAdd(ONE, FMul(h, p.Bi))))

RECURSIVE MaxDiffFrom(_, _, _, _, _, _)
\* for (let i = 0; i <= N; i++) maxDiff = Math.max(maxDiff, |W[i]-W_prev[i]|, |Theta[i]-Theta_prev[i]|)
MaxDiffFrom(i, acc, W, W_prev, Theta, Theta_prev) ==
  IF i >= Len(W) THEN acc
  ELSE MaxDiffFrom(i + 1,
                   FMax(FMax(acc, FAbs(FSub(At(W, i), At(W_prev, i)))),
                        FAbs(FSub(At(Theta, i), At(Theta_prev, i)))),
                   W, W_prev, Theta, Theta_prev)

\* one pass of the body of the Picard loop
PicardPass(p, dtau, W, Theta, W_old, Theta_old) ==
  LET Wn == UpdateW(p, dtau, W, W_old)
      Tn == UpdateTheta(p, dtau, Wn, Theta, Theta_old)
  IN  [W |-> Wn, Theta |-> Tn, maxDiff |-> MaxDiffFrom(0, 0, Wn, W, Tn, Theta)]

\* const Nt = Math.floor(tauFinal / dtau)
NtOf(tauFinal, dtau) == FloorDiv(tauFinal, dtau)

\* the loop test n <= Nt
StepLoopTest(n, Nt) == FLe(n, Nt)

\* SaveTest without the clause for the last step
SaveTest_NoLast(n, saveFreq, Nt) == saveFreq # 0 /\ n % saveFreq = 0

\* if (n % saveFreq === 0 || n === Nt)
SaveTest(n, saveFreq, Nt) == (saveFreq # 0 /\ n % saveFreq = 0) \/ n = Nt

\* the four wall fluxes of a state, [CfLower, CfUpper, NuLower, NuUpper]
WallFluxes(p, W, Theta) ==
  LET Wp == Deriv(W, p.N)
      Thetap == Deriv(Theta, p.N)
  IN  [CfLower |-> FMul(p.A1, At(Wp, 0)), CfUpper |-> FMul(p.A1, At(Wp, p.N)),
       NuLower |-> FMul(FNeg(p.A3), At(Thetap, 0)),
       NuUpper |-> FMul(FNeg(p.A3), At(Thetap, p.N))]


\* ---- transient response metrics (post-processing of the trajectory) ----

\* 0.63, 0.95, 0.02, 5 and 0.5 as numbers
Frac63 == 630
Frac95 == 950
Band2 == 20
Over5 == 5000
Over05 == 500

RECURSIVE TauScan_BreakFirst(_, _, _, _, _, _)
\* TauScan with the 95% test and its break ahead of the 63% test
TauScan_BreakFirst(Cf, tauH, CfFinal, tauFinal, i, acc) ==
  IF i >= Len(Cf) THEN acc
  ELSE IF FGe(FAbs(At(Cf, i)), FMul(Frac95, FAbs(CfFinal)))
       THEN [acc EXCEPT !.tau95 = At(tauH, i)]
       ELSE TauScan_BreakFirst(Cf, tauH, CfFinal, tauFinal, i + 1,
              IF FGe(FAbs(At(Cf, i)), FMul(Frac63, FAbs(CfFinal))) /\ acc.tau63 = tauFinal
              THEN [acc EXCEPT !.tau63 = At(tauH, i)]
              ELSE acc)

RECURSIVE TauScan_NoBreak(_, _, _, _, _, _)
\* TauScan without the break at the first sample that reaches 95%
TauScan_NoBreak(Cf, tauH, CfFinal, tauFinal, i, acc) ==
  IF i >= Len(Cf) THEN acc
  ELSE LET a63 == IF FGe(FAbs(At(Cf, i)), FMul(Frac63, FAbs(CfFinal))) /\ acc.tau63 = tauFinal
                  THEN [acc EXCEPT !.tau63 = At(tauH, i)]
                  ELSE acc
       IN  TauScan_NoBreak(Cf, tauH, CfFinal, tauFinal, i + 1,
                           IF FGe(FAbs(At(Cf, i)), FMul(Frac95, FAbs(CfFinal)))
                           THEN [a63 EXCEPT !.tau95 = At(tauH, i)]
                           ELSE a63)

RECURSIVE TauScan(_, _, _, _, _, _)
\* the loop that sets tau63 and tau95; acc = [tau95, tau63], i the loop index
TauScan(Cf, tauH, CfFinal, tauFinal, i, acc) ==
  IF i >= Len(Cf) THEN acc
  ELSE LET a63 == IF FGe(FAbs(At(Cf, i)), FMul(Frac63, FAbs(CfFinal))) /\ acc.tau63 = tauFinal
                  THEN [acc EXCEPT !.tau63 = At(tauH, i)]
                  ELSE acc
       IN  IF FGe(FAbs(At(Cf, i)), FMul(Frac95, FAbs(CfFinal)))
           THEN [a63 EXCEPT !.tau95 = At(tauH, i)]
           ELSE TauScan(Cf, tauH, CfFinal, tauFinal, i + 1, a63)

RECURSIVE MaxAbs(_, _, _)
\* Math.max(...CfLowerHistory.map(Math.abs)), starting from -Infinity
MaxAbs(Cf, i, acc) ==
  IF i >= Len(Cf) THEN acc ELSE MaxAbs(Cf, i + 1, FMax(acc, FAbs(At(Cf, i))))

\* Math.max(0, (CfMax - |CfFinal|) / |CfFinal| * 100)
Overshoot(Cf, CfFinal) ==
  FMax(0, FMul(FDiv(FSub(MaxAbs(Cf, 0, NInf), FAbs(CfFinal)), FAbs(CfFinal)), Num(100)))

RECURSIVE PeakScan(_, _, _, _, _)
\* CfLowerHistory.forEach((cf, i) => { if (|cf| === CfMax) peakTime = tauHistory[i] })
PeakScan(Cf, tauH, CfMax, i, acc) ==
  IF i >= Len(Cf) THEN acc
  ELSE PeakScan(Cf, tauH, CfMax, i + 1,
                IF ~IsNaN(CfMax) /\ FAbs(At(Cf, i)) = CfMax THEN At(tauH, i) ELSE acc)

RECURSIVE SettleScan(_, _, _, _, _)
\* the backward loop that sets settlingTime, i the loop index
SettleScan(Cf, tauH, CfFinal, tauFinal, i) ==
  IF i < 0 THEN tauFinal
  ELSE IF FGt(FDiv(FAbs(FSub(At(Cf, i), CfFinal)), FAbs(CfFinal)), Band2)
       THEN At(tauH, IF i + 1 <= Len(Cf) - 1 THEN i + 1 ELSE Len(Cf) - 1)
       ELSE SettleScan(Cf, tauH, CfFinal, tauFinal, i - 1)

\* dampingType with the lower threshold tested first
DampingType_LowFirst(overshoot) ==
  IF FGt(overshoot, Over05) THEN "Critically Damped"
  ELSE IF FGt(overshoot, Over5) THEN "Underdamped"
  ELSE "Overdamped"

\* dampingType from overshoot
DampingType(overshoot) ==
  IF FGt(overshoot, Over5) THEN "Underdamped"
  ELSE IF FGt(overshoot, Over05) THEN "Critically Damped"
  ELSE "Overdamped"

\* the metrics record (the fields the transient-response claims are about)
Metrics(Cf, Nu, tauH, tauFinal) ==
  LET CfFinal == At(Cf, Len(Cf) - 1)
      NuFinal == At(Nu, Len(Nu) - 1)
      taus == TauScan(Cf, tauH, CfFinal, tauFinal, 0, [tau95 |-> tauFinal, tau63 |-> tauFinal])
      overshoot == Overshoot(Cf, CfFinal)
  IN  [CfFinal |-> CfFinal, NuFinal |-> NuFinal, tau95 |-> taus.tau95, tau63 |-> taus.tau63,
       overshoot |-> overshoot,
       settlingTime |-> SettleScan(Cf, tauH, CfFinal, tauFinal, Len(Cf) - 1),
       peakTime |-> PeakScan(Cf, tauH, MaxAbs(Cf, 0, NInf), 0, 0),
       dampingType |-> DampingType(overshoot)]

\* ---- energy integrals over the grid at one saved sample ----

RECURSIVE EnergySum(_, _, _, _, _)
\* the inner loop for (let i = 0; i < N; i++) { KE += ...; TE += ...; VD += ...; JH += ... }
EnergySum(p, Wt, Tt, i, acc) ==
  IF i >= p.N THEN acc
  ELSE LET h == GridH(p.N)
           sq(x) == FMul(x, x)
           wp_i == FDiv(FSub(At(Wt, i + 1), At(Wt, i)), h)
       IN  EnergySum(p, Wt, Tt, i + 1,
             [KE |-> FAdd(acc.KE, FMul(FMul(ONE \div 2, FAdd(sq(At(Wt, i)), sq(At(Wt, i + 1)))), h)),
              TE |-> FAdd(acc.TE, FMul(FMul(ONE \div 2, FAdd(At(Tt, i), At(Tt, i + 1))), h)),
              VD |-> FAdd(acc.VD, FMul(FMul(FMul(FMul(p.A1, p.Pr), p.Ec), sq(wp_i)), h)),
              JH |-> FAdd(acc.JH,
                          FMul(FMul(FMul(FMul(FMul(FMul(p.A2, p.Pr), p.Ec), p.Ha), p.Ha),
                                    sq(At(Wt, i))), h))])

Energies(p, Wt, Tt) == EnergySum(p, Wt, Tt, 0, [KE |-> 0, TE |-> 0, VD |-> 0, JH |-> 0])


(***************************************************************************)
(* TransientOptimizer                                                      *)
(*                                                                         *)
(* An individual is a function from the search dimensions to the points of *)
(* a lattice: a real value is held as the lattice point nearest to it.     *)
(* Math.random() is a nondeterministic choice, so a random value, a blend  *)
(* of two parents and a mutation step are every lattice point they can     *)
(* round to.                                                               *)
(***************************************************************************)

\* bounds on the configured population size and generation count
MaxPop == 3
MaxGens == 2

\* the search dimensions (the keys of the bounds object)
Dims == {"Ha", "Re"}

\* best = null
Null == <<>>

\* the bounds objects of the model: [min, max] per dimension
BoundsSets == {[Ha |-> <<0, 3>>, Re |-> <<1, 1>>], [Ha |-> <<2, 2>>, Re |-> <<0, 1>>]}

\* every individual within the bounds b
Individuals(b) == {i \in [Dims -> 0..3] : \A d \in Dims : b[d][1] <= i[d] /\ i[d] <= b[d][2]}

\* the fitness functions of the model: increasing, decreasing (all negative),
\* peaked inside the bounds, constant (all ties) and alternating (ties
\* between distant individuals)
FitnessFns ==
  {[i \in [Dims -> 0..3] |-> i["Ha"] + i["Re"]],
   [i \in [Dims -> 0..3] |-> -1 - i["Ha"] - i["Re"]],
   [i \in [Dims -> 0..3] |-> 4 - (i["Ha"] - 2) * (i["Ha"] - 2) - i["Re"]],
   [i \in [Dims -> 0..3] |-> 0],
   [i \in [Dims -> 0..3] |-> (i["Ha"] + i["Re"]) % 2]}

\* opts[key] || default: the default replaces a missing key (undefined) and 0
OptOr(opts, key, default) ==
  IF key \in DOMAIN opts /\ opts[key] # 0 THEN opts[key] ELSE default

\* constructor: opts.x || default
Construct(opts) ==
  [popSize |-> OptOr(opts, "populationSize", 20),
   gens |-> OptOr(opts, "generations", 30),
   mutRate |-> OptOr(opts, "mutationRate", 150)]

\* createInd: min + Math.random() * (max - min) in every dimension
CreateInd(b) == Individuals(b)

\* crossover: a * p1[k] + (1 - a) * p2[k] with a fresh a in [0, 1) per dimension
Crossover(b, p1, p2) ==
  {c \in [Dims -> 0..3] :
     \A d \in Dims : /\ c[d] >= (IF p1[d] <= p2[d] THEN p1[d] ELSE p2[d])
                    /\ c[d] <= (IF p1[d] <= p2[d] THEN p2[d] ELSE p1[d])}

\* the mutated value left as it is
Clip_Unclipped(lo, hi, v) == v

\* max(min, min(max, v))
Clip(lo, hi, v) == IF v < lo THEN lo ELSE IF v > hi THEN hi ELSE v

\* the mutation steps (Math.random() - 0.5) * (max - min) * 0.4 on the
\* lattice: a real step below (max - min) / 5 moves the nearest lattice point
\* by d when |d| - 1 < (max - min) / 5
MutSteps(lo, hi) ==
  IF hi = lo THEN {0}
  ELSE {d \in (lo - hi)..(hi - lo) : 5 * (IF d < 0 THEN -d ELSE d) < (hi - lo) + 5}

\* mutate: a copy of ind where each dimension is, with probability mutRate,
\* moved by a step and clipped
Mutate(b, rate, ind) ==
  {m \in [Dims -> 0..3] :
     \A d \in Dims :
       \/ rate < ONE /\ m[d] = ind[d]
       \/ rate > 0 /\ \E st \in MutSteps(b[d][1], b[d][2]) :
                         m[d] = Clip(b[d][1], b[d][2], ind[d] + st)}

RECURSIVE InsertDesc(_, _)
\* insert e into the descending list s after every element whose fit is >= e.fit
InsertDesc(s, e) ==
  IF s = <<>> THEN <<e>>
  ELSE IF Head(s).fit >= e.fit THEN <<Head(s)>> \o InsertDesc(Tail(s), e)
  ELSE <<e>> \o s

RECURSIVE SortDesc_Ascending(_)
\* the sort with the comparator reversed (a.fit - b.fit): ascending fitness
SortDesc_Ascending(s) ==
  IF s = <<>> THEN <<>>
  ELSE LET rest == SortDesc_Ascending(SubSeq(s, 1, Len(s) - 1))
           e == s[Len(s)]
           keep == {k \in 1..Len(rest) : rest[k].fit <= e.fit}
       IN  SubSeq(rest, 1, Cardinality(keep)) \o <<e>> \o SubSeq(rest, Cardinality(keep) + 1, Len(rest))

RECURSIVE SortDesc(_)
\* .sort((a, b) => b.fit - a.fit): stable, descending fitness
SortDesc(s) == IF s = <<>> THEN <<>> ELSE InsertDesc(SortDesc(SubSeq(s, 1, Len(s) - 1)), s[Len(s)])

\* pop.map(i => ({ ind: i, fit: this.fn(i) })).sort(...)
Evaluate(f, population) == SortDesc([k \in 1..Len(population) |-> [ind |-> population[k], fit |-> f[population[k]]]])

\* the best update taken from the last element of ev, without the comparison
UpdateBest_LastUnguarded(e, b, bf) == [best |-> e[Len(e)].ind, bestFit |-> e[Len(e)].fit]

\* if (ev[0].fit > bestFit) { bestFit = ev[0].fit; best = { ...ev[0].ind }; }
UpdateBest(e, b, bf) ==
  IF FGt(e[1].fit, bf) THEN [best |-> e[1].ind, bestFit |-> e[1].fit]
  ELSE [best |-> b, bestFit |-> bf]

\* the random candidates drawn by one call of sel(): the first, then one in
\* each of the two passes of its loop
SelDraws == 3

\* sel(): one random element of ev, replaced by each of two further random
\* elements that has a strictly larger fit
Sel(e) ==
  {(LET b0 == e[t[1]]
        b1 == IF e[t[2]].fit > b0.fit THEN e[t[2]] ELSE b0
        b2 == IF e[t[3]].fit > b1.fit THEN e[t[3]] ELSE b1
    IN  b2.ind) : t \in [1..SelDraws -> 1..Len(e)]}

\* this.mutate(this.crossover(sel(), sel()))
Children(b, rate, e) ==
  UNION {UNION {Mutate(b, rate, c) : c \in Crossover(b, pr[1], pr[2])} : pr \in Sel(e) \X Sel(e)}

(***************************************************************************)
(* validateParameters                                                      *)
(*                                                                         *)
(* A parameter record is a function from the keys it holds to numbers; its *)
(* entries are visited in the key order of the presets.  An error or a     *)
(* warning is recorded by what it reports, not by its text.                *)
(***************************************************************************)

\* PARAMETER_VALIDITY: min, max and the warning conditions of each key
PARAMETER_VALIDITY ==
  [Ha |-> [min |-> 0, max |-> 10000, warnLow |-> 500, warnHigh |-> 8000],
   Re |-> [min |-> 100, max |-> 5000, warnLow |-> 200, warnHigh |-> 4000],
   Pr |-> [min |-> 700, max |-> 20000, warnLow |-> 1000, warnHigh |-> 15000],
   Ec |-> [min |-> 0, max |-> 1000, warnLow |-> NInf, warnHigh |-> 500],
   Bi |-> [min |-> 100, max |-> 10000, warnLow |-> 200, warnHigh |-> 8000],
   lambda |-> [min |-> 0, max |-> 1000, warnLow |-> NInf, warnHigh |-> 500],
   G |-> [min |-> 0, max |-> 2000, warnLow |-> NInf, warnHigh |-> 1500]]

\* the order in which Object.entries visits the keys of a parameter record
KeyOrder == <<"Re", "Ha", "Pr", "Ec", "Bi", "lambda", "G">>

\* params.key, undefined (NaN in a comparison) when the key is absent
Field(prm, key) == IF key \in DOMAIN prm THEN prm[key] ELSE NaN

\* the errors pushed for one entry, with <= in place of < at the minimum
EntryErrors_MinInclusive(key, value) ==
  LET spec == PARAMETER_VALIDITY[key]
  IN  (IF FLe(value, spec.min) THEN <<[key |-> key, what |-> "below minimum"]>> ELSE <<>>)
      \o (IF FGt(value, spec.max) THEN <<[key |-> key, what |-> "above maximum"]>> ELSE <<>>)

\* the errors pushed for one entry of the record (lines 253-258)
EntryErrors(key, value) ==
  LET spec == PARAMETER_VALIDITY[key]
  IN  (IF FLt(value, spec.min) THEN <<[key |-> key, what |-> "below minimum"]>> ELSE <<>>)
      \o (IF FGt(value, spec.max) THEN <<[key |-> key, what |-> "above maximum"]>> ELSE <<>>)

\* the warnings pushed for one entry of the record (lines 261-265)
EntryWarnings(key, value) ==
  LET spec == PARAMETER_VALIDITY[key]
  IN  (IF FLt(value, spec.warnLow) THEN <<[key |-> key, what |-> "low"]>> ELSE <<>>)
      \o (IF FGt(value, spec.warnHigh) THEN <<[key |-> key, what |-> "high"]>> ELSE <<>>)

\* the three interaction warnings (lines 270-280)
InteractionWarnings(prm) ==
  (IF FGt(Field(prm, "Ec"), 300) /\ FLt(Field(prm, "Bi"), 500)
   THEN <<[key |-> "Ec,Bi", what |-> "excessive heating"]>> ELSE <<>>)
  \o (IF FLt(Field(prm, "Ha"), 1000) /\ FGt(Field(prm, "Re"), 3000)
      THEN <<[key |-> "Ha,Re", what |-> "oscillations"]>> ELSE <<>>)
  \o (IF FGt(Field(prm, "lambda"), 300) /\ FGt(Field(prm, "Ha"), 5000)
      THEN <<[key |-> "lambda,Ha", what |-> "unexpected flow patterns"]>> ELSE <<>>)

RECURSIVE EntriesFrom(_, _, _)
\* Object.entries(params).forEach(...) from entry k on; acc = [warnings, errors]
EntriesFrom(prm, k, acc) ==
  IF k > Len(KeyOrder) THEN acc
  ELSE LET key == KeyOrder[k]
       IN  IF key \in DOMAIN prm
           THEN EntriesFrom(prm, k + 1,
                  [warnings |-> acc.warnings \o EntryWarnings(key, prm[key]),
                   errors |-> acc.errors \o EntryErrors(key, prm[key])])
           ELSE EntriesFrom(prm, k + 1, acc)

\* validateParameters(params)
ValidateParameters(prm) ==
  LET r == EntriesFrom(prm, 1, [warnings |-> <<>>, errors |-> <<>>])
  IN  [warnings |-> r.warnings \o InteractionWarnings(prm),
       errors |-> r.errors,
       isValid |-> Len(r.errors) = 0]

(***************************************************************************)
(* computeNanofluidProperties                                              *)
(*                                                                         *)
(* A4 and A5 are ratios in which the units of density and heat capacity    *)
(* cancel; densities are held in 1000 kg/m^3 and heat capacities in        *)
(* 1000 J/(kg K) so that rho * Cp stays within the model's numbers.  The   *)
(* conductivity ratio sigma / sigma_f of a particle is held within         *)
(* [0, SrCap]: beyond SrCap the value of A2 changes by at most 1/ONE.     *)
(***************************************************************************)

\* the largest sigma / sigma_f carried by the model
SrCap == 1000

\* NANOPARTICLES: rho, k, Cp and sr = sigma / sigma_f of each particle type
NANOPARTICLES ==
  [Cu    |-> [rho |-> 8933, k |-> 401000, Cp |-> 385, sr |-> Num(SrCap)],
   Al2O3 |-> [rho |-> 3970, k |-> 40000, Cp |-> 765, sr |-> 0],
   TiO2  |-> [rho |-> 4250, k |-> 8950, Cp |-> 686, sr |-> 0],
   Ag    |-> [rho |-> 10500, k |-> 429000, Cp |-> 235, sr |-> Num(SrCap)],
   Fe3O4 |-> [rho |-> 5180, k |-> 9700, Cp |-> 670, sr |-> Num(SrCap)],
   SiO2  |-> [rho |-> 2200, k |-> 1400, Cp |-> 745, sr |-> 0],
   CuO   |-> [rho |-> 6320, k |-> 76500, Cp |-> 532, sr |-> 0],
   ZnO   |-> [rho |-> 5606, k |-> 29000, Cp |-> 523, sr |-> 0]]

\* the base-fluid constants rho_f, k_f, Cp_f
BaseFluid == [rho_f |-> 997, k_f |-> 613, Cp_f |-> 4179]

\* Math.sqrt of a number in [0, 1]
FSqrt(x) == CHOOSE r \in 0..ONE : r * r <= x * ONE /\ x * ONE < (r + 1) * (r + 1)

\* Math.pow(x, 2.5) of a number in [0, 1]
Pow25(x) == FMul(FMul(x, x), FSqrt(x))

\* the value returned for a type that is not in NANOPARTICLES
NanoFallback == [A1 |-> 1200, A2 |-> 1500, A3 |-> 1300, A4 |-> 1100, A5 |-> 1150]

\* computeNanofluidProperties(type, phi)
ComputeNanofluidProperties(type, phi) ==
  IF type \notin DOMAIN NANOPARTICLES THEN NanoFallback
  ELSE LET p == NANOPARTICLES[type]
           rho_f == BaseFluid.rho_f
           k_f == BaseFluid.k_f
           Cp_f == BaseFluid.Cp_f
           oneMinus == FSub(ONE, phi)
           sr == p.sr
       IN  [A4 |-> FDiv(FAdd(FMul(oneMinus, rho_f), FMul(phi, p.rho)), rho_f),
            A1 |-> FDiv(ONE, Pow25(oneMinus)),
            A3 |-> FDiv(FAdd(FAdd(p.k, FMul(Num(2), k_f)),
                             FMul(FMul(Num(2), phi), FSub(p.k, k_f))),
                        FSub(FAdd(p.k, FMul(Num(2), k_f)), FMul(phi, FSub(p.k, k_f)))),
            A5 |-> FDiv(FAdd(FMul(FMul(oneMinus, rho_f), Cp_f),
                             FMul(FMul(phi, p.rho), p.Cp)),
                        FMul(rho_f, Cp_f)),
            A2 |-> FAdd(ONE, FDiv(FMul(FMul(Num(3), phi), FSub(sr, ONE)),
                                  FSub(FAdd(sr, Num(2)), FMul(phi, FSub(sr, ONE)))))]

(***************************************************************************)
(* State                                                                   *)
(***************************************************************************)

VARIABLES
  \* one invocation of solveUnsteadyMHDCouette(params, tauFinal, dtau, saveFreq)
  params, tauFinal, dtau, saveFreq,
  W, Theta, W_old, Theta_old, n, iter, maxDiff,
  tauHistory, WHistory, ThetaHistory,
  CfLowerHistory, CfUpperHistory, NuLowerHistory, NuUpperHistory,
  kineticEnergy, thermalEnergy, viscousDissipation, jouleHeating,
  metrics, pc,
  \* one TransientOptimizer and one call of its optimize(onProgress)
  opts,          \* the options object passed to the constructor
  fn, bounds, popSize, gens, mutRate,
  pop, ev, best, bestFit, g,
  progress,      \* the reports delivered to onProgress, in order
  timersSet,     \* number of setTimeout suspensions begun
  timersFired,   \* number of suspensions resumed
  evaluated,     \* the individuals passed to fn so far
  selDraws,      \* number of random candidates drawn by sel() so far
  result, opc,
  \* one call of validateParameters(vparams)
  vparams, vresult, vpc,
  \* one call of computeNanofluidProperties(npType, npPhi)
  npType, npPhi, npResult, npc,
  \* one call of TransientNeuralNetwork.sensitivity(baseParams)
  baseParams,    \* the caller's parameter object
  passedParams,  \* the value that object had when sensitivity was called
  testParams,    \* the copy made in the current iteration of forEach
  quickSolves,   \* the parameter sets passed to solveQuick, in order
  sensitivities, spc,
  \* the nanofluid controls of App: the useState values phi, selectedNP and params
  phi, selectedNP, appParams,
  \* useSimulationResults and the Results Library of App
  store,           \* the ids of the rows of simulation_results
  savedResults,    \* the hook's list, newest first
  libraryResults,  \* the list App displays, newest first
  isLoading,
  inflight,        \* the calls of saveResult, loadResults and deleteResult awaiting the store
  started,         \* the number of calls started so far
  \* the clients of one collaboration room: App and useCollaboration of each
  roomParams,      \* params of the row of collaboration_rooms
  localParams,     \* App's params, per client
  isActive, sharedParams,
  updateTimeout,   \* updateTimeoutRef: the value a pending timer will write
  sinceUpdate,     \* Date.now() - lastUpdateRef.current, in units of 100 ms
  paramsChannel,   \* the change payloads on their way to each subscriber
  edits,           \* the number of user edits so far
  lastEdit,        \* the value of each client's latest user edit
  written          \* the values each client has written to the room

solveVars ==
  <<params, tauFinal, dtau, saveFreq, W, Theta, W_old, Theta_old, n, iter, maxDiff,
    tauHistory, WHistory, ThetaHistory,
    CfLowerHistory, CfUpperHistory, NuLowerHistory, NuUpperHistory,
    kineticEnergy, thermalEnergy, viscousDissipation, jouleHeating, metrics, pc>>

optVars ==
  <<opts, fn, bounds, popSize, gens, mutRate, pop, ev, best, bestFit, g,
    progress, timersSet, timersFired, evaluated, selDraws, result, opc>>

valVars == <<vparams, vresult, vpc>>

nanoVars == <<npType, npPhi, npResult, npc>>

sensVars == <<baseParams, passedParams, testParams, quickSolves, sensitivities, spc>>

uiVars == <<phi, selectedNP, appParams>>

resVars == <<store, savedResults, libraryResults, isLoading, inflight, started>>

collabVars ==
  <<roomParams, localParams, isActive, sharedParams, updateTimeout, sinceUpdate,
    paramsChannel, edits, lastEdit, written>>

vars == <<solveVars, optVars, valVars, nanoVars, sensVars, uiVars, resVars, collabVars>>

\* the solver at rest (no invocation)
SolveIdle ==
  /\ params = BasePreset @@ [N |-> 1]
  /\ tauFinal = 0 /\ dtau = 0 /\ saveFreq = 0
  /\ W = <<>> /\ Theta = <<>> /\ W_old = <<>> /\ Theta_old = <<>>
  /\ n = 0 /\ iter = 0 /\ maxDiff = 0
  /\ tauHistory = <<>> /\ WHistory = <<>> /\ ThetaHistory = <<>>
  /\ CfLowerHistory = <<>> /\ CfUpperHistory = <<>>
  /\ NuLowerHistory = <<>> /\ NuUpperHistory = <<>>
  /\ kineticEnergy = <<>> /\ thermalEnergy = <<>>
  /\ viscousDissipation = <<>> /\ jouleHeating = <<>>
  /\ metrics = [dampingType |-> "none"]
  /\ pc = "idle"

\* no optimizer constructed
OptIdle ==
  /\ opts = <<>> /\ fn = <<>> /\ bounds = <<>>
  /\ popSize = 0 /\ gens = 0 /\ mutRate = 0
  /\ pop = <<>> /\ ev = <<>> /\ best = Null /\ bestFit = NInf /\ g = 0
  /\ progress = <<>> /\ timersSet = 0 /\ timersFired = 0 /\ evaluated = {}
  /\ selDraws = 0
  /\ result = <<>> /\ opc = "idle"

\* no validation called
ValidateIdle == vparams = <<>> /\ vresult = <<>> /\ vpc = "idle"

\* no property computation called
NanoIdle == npType = "none" /\ npPhi = 0 /\ npResult = <<>> /\ npc = "idle"

\* no sensitivity analysis called
SensIdle ==
  /\ baseParams = <<>> /\ passedParams = <<>> /\ testParams = <<>>
  /\ quickSolves = <<>> /\ sensitivities = <<>> /\ spc = "idle"

\* the nanofluid controls as App mounts them (lines 1723-1726)
UiIdle == phi = 20 /\ selectedNP = "Custom" /\ appParams = BasePreset

\* the results hook as App mounts it (useState([]), useState(false)) on an
\* empty table
ResIdle ==
  /\ store = {} /\ savedResults = <<>> /\ libraryResults = <<>>
  /\ isLoading = FALSE /\ inflight = {} /\ started = 0

\* the two browsers that share the room
Clients == {"a", "b"}

\* the 500 ms of the debounce timer and the 100 ms of the guard, in units of
\* 100 ms; every event of the model happens at a multiple of 100 ms
TimerTicks == 5
GuardTicks == 1

\* useState(null), updateTimeoutRef = useRef(null): no parameter value
NoParams == -1

\* nobody collaborates: useState(false), useState(null), useRef(null)
CollabIdle ==
  /\ roomParams = NoParams
  /\ localParams = [c \in Clients |-> 0]
  /\ isActive = [c \in Clients |-> FALSE]
  /\ sharedParams = [c \in Clients |-> NoParams]
  /\ updateTimeout = [c \in Clients |-> NoParams]
  /\ sinceUpdate = [c \in Clients |-> TimerTicks]
  /\ paramsChannel = [c \in Clients |-> <<>>]
  /\ edits = 0
  /\ lastEdit = [c \in Clients |-> NoParams]
  /\ written = [c \in Clients |-> {}]

\* ---- inputs of the solve ----

\* parameter sets within the data-model bounds, on grids of 1, 2 and 3 cells
ValidParameterSets ==
  {[A1 |-> 1200, A2 |-> 1500, A3 |-> 1300, A4 |-> 1100, A5 |-> 1150,
    Re |-> re, Ha |-> ha, Pr |-> 6200, Ec |-> 100, Bi |-> 500,
    lambda |-> la, G |-> gp, N |-> nn] :
      re \in {0, 1000}, ha \in {0, 2000}, la \in {0, 100}, gp \in {0, 500}, nn \in {1, 2, 3}}

\* two parameter sets on a grid of 5 cells, where the Picard iteration
\* contracts slowly when the time step is large
FineParameterSets ==
  {[BasePreset EXCEPT !.Ha = ha] @@ [N |-> 5] : ha \in {0, 2000}}

\* the baseline without pressure gradient under a weak magnetic field,
\* where the skin friction decays by a few percent or less
WeakFieldParameterSets ==
  {[BasePreset EXCEPT !.Ha = ha, !.G = 0] @@ [N |-> nn] : ha \in {300, 500}, nn \in {2, 3}}

\* the baseline with an invalid grid size or an invalid Prandtl number
InvalidParameterSets ==
  {BasePreset @@ [N |-> nn] : nn \in {-2, 0}}
    \cup {[BasePreset EXCEPT !.Pr = 0] @@ [N |-> 2]}

\* (tauFinal, dtau) with Nt = 0, 5, 6 (tauFinal not a multiple of dtau), 2 and,
\* with a large step, 2 and 3 (the Picard iteration contracts slowly)
ValidTimePairs == {<<10, 20>>, <<100, 20>>, <<130, 20>>, <<100, 40>>, <<1000, 500>>, <<1500, 500>>}

ValidTimes ==
  {[tauFinal |-> tp[1], dtau |-> tp[2], saveFreq |-> sf] :
      tp \in ValidTimePairs, sf \in {1, 2, 5}}

InvalidTimes ==
  {[tauFinal |-> tf, dtau |-> dt, saveFreq |-> 2] :
      tf \in {0, 100}, dt \in {-20, 0, 20}} \ ValidTimes

SolveInputs ==
  (ValidParameterSets \X ValidTimes)
    \cup (FineParameterSets \X {t \in ValidTimes : t.dtau = 500})
    \cup (WeakFieldParameterSets \X {t \in ValidTimes : t.dtau = 20 /\ t.saveFreq = 1})
    \cup (InvalidParameterSets \X {[tauFinal |-> 100, dtau |-> 20, saveFreq |-> 2]})
    \cup ({BasePreset @@ [N |-> 2]} \X InvalidTimes)

\* N < 1, dtau <= 0, tauFinal <= 0 or Pr <= 0
InvalidInput == params.N < 1 \/ dtau <= 0 \/ tauFinal <= 0 \/ params.Pr <= 0

Nt == NtOf(tauFinal, dtau)

InitSolve ==
  /\ \E in \in SolveInputs :
       /\ params = in[1]
       /\ tauFinal = in[2].tauFinal /\ dtau = in[2].dtau /\ saveFreq = in[2].saveFreq
  /\ W = <<>> /\ Theta = <<>> /\ W_old = <<>> /\ Theta_old = <<>>
  /\ n = 0 /\ iter = 0 /\ maxDiff = 0
  /\ tauHistory = <<>> /\ WHistory = <<>> /\ ThetaHistory = <<>>
  /\ CfLowerHistory = <<>> /\ CfUpperHistory = <<>>
  /\ NuLowerHistory = <<>> /\ NuUpperHistory = <<>>
  /\ kineticEnergy = <<>> /\ thermalEnergy = <<>>
  /\ viscousDissipation = <<>> /\ jouleHeating = <<>>
  /\ metrics = [dampingType |-> "none"]
  /\ pc = "called"
  /\ OptIdle /\ ValidateIdle /\ NanoIdle /\ SensIdle /\ UiIdle /\ ResIdle /\ CollabIdle

\* ---- the steps of the solve ----

\* lines 290-320: the grid, the initial condition and the first sample;
\* new Array(N + 1) throws a RangeError when N + 1 < 0
SolveSetup ==
  /\ pc = "called"
  /\ IF params.N + 1 < 0
     THEN /\ pc' = "threw"
          /\ UNCHANGED <<W, Theta, n, tauHistory, WHistory, ThetaHistory,
                         CfLowerHistory, CfUpperHistory, NuLowerHistory, NuUpperHistory>>
     ELSE LET W0 == InitialW(params)
              T0 == InitialTheta(params)
              fl == WallFluxes(params, W0, T0)
          IN  /\ W' = W0 /\ Theta' = T0
              /\ tauHistory' = <<0>>
              /\ WHistory' = <<W0>> /\ ThetaHistory' = <<T0>>
              /\ CfLowerHistory' = <<fl.CfLower>> /\ CfUpperHistory' = <<fl.CfUpper>>
              /\ NuLowerHistory' = <<fl.NuLower>> /\ NuUpperHistory' = <<fl.NuUpper>>
              /\ n' = 1
              /\ pc' = "loop"
  /\ UNCHANGED <<params, tauFinal, dtau, saveFreq, W_old, Theta_old, iter, maxDiff,
                 kineticEnergy, thermalEnergy, viscousDissipation, jouleHeating, metrics>>
  /\ UNCHANGED <<optVars, valVars, nanoVars, sensVars, uiVars, resVars, collabVars>>

\* lines 322-324: the test of the step loop and the copies W_old, Theta_old
BeginStep ==
  /\ pc = "loop"
  /\ StepLoopTest(n, Nt)
  /\ n <= MaxSteps
  /\ W_old' = W /\ Theta_old' = Theta
  /\ iter' = 0
  /\ pc' = "picard"
  /\ UNCHANGED <<params, tauFinal, dtau, saveFreq, W, Theta, n, maxDiff,
                 tauHistory, WHistory, ThetaHistory,
                 CfLowerHistory, CfUpperHistory, NuLowerHistory, NuUpperHistory,
                 kineticEnergy, thermalEnergy, viscousDissipation, jouleHeating, metrics>>
  /\ UNCHANGED <<optVars, valVars, nanoVars, sensVars, uiVars, resVars, collabVars>>

\* PicardIteration without the convergence test: all 15 iterations are run
PicardIteration_NoBreak ==
  /\ pc = "picard"
  /\ iter < MaxPicard
  /\ LET r == PicardPass(params, dtau, W, Theta, W_old, Theta_old)
     IN  /\ W' = r.W /\ Theta' = r.Theta
         /\ maxDiff' = r.maxDiff
         /\ iter' = iter + 1 /\ pc' = IF iter + 1 < MaxPicard THEN "picard" ELSE "save"
  /\ UNCHANGED <<params, tauFinal, dtau, saveFreq, W_old, Theta_old, n,
                 tauHistory, WHistory, ThetaHistory,
                 CfLowerHistory, CfUpperHistory, NuLowerHistory, NuUpperHistory,
                 kineticEnergy, thermalEnergy, viscousDissipation, jouleHeating, metrics>>
  /\ UNCHANGED <<optVars, valVars, nanoVars, sensVars, uiVars, resVars, collabVars>>

\* lines 326-354: one Picard iteration, its convergence test and the loop test
PicardIteration ==
  /\ pc = "picard"
  /\ iter < MaxPicard
  /\ LET r == PicardPass(params, dtau, W, Theta, W_old, Theta_old)
     IN  /\ W' = r.W /\ Theta' = r.Theta
         /\ maxDiff' = r.maxDiff
         /\ IF FLt(r.maxDiff, Tol)
            THEN iter' = iter /\ pc' = "save"
            ELSE iter' = iter + 1 /\ pc' = IF iter + 1 < MaxPicard THEN "picard" ELSE "save"
  /\ UNCHANGED <<params, tauFinal, dtau, saveFreq, W_old, Theta_old, n,
                 tauHistory, WHistory, ThetaHistory,
                 CfLowerHistory, CfUpperHistory, NuLowerHistory, NuUpperHistory,
                 kineticEnergy, thermalEnergy, viscousDissipation, jouleHeating, metrics>>
  /\ UNCHANGED <<optVars, valVars, nanoVars, sensVars, uiVars, resVars, collabVars>>

\* lines 356-371: the end of a step, recording a sample when due
CompleteStep ==
  /\ pc = "save"
  /\ IF SaveTest(n, saveFreq, Nt)
     THEN LET fl == WallFluxes(params, W, Theta)
          IN  /\ tauHistory' = Append(tauHistory, n * dtau)
              /\ WHistory' = Append(WHistory, W)
              /\ ThetaHistory' = Append(ThetaHistory, Theta)
              /\ CfLowerHistory' = Append(CfLowerHistory, fl.CfLower)
              /\ CfUpperHistory' = Append(CfUpperHistory, fl.CfUpper)
              /\ NuLowerHistory' = Append(NuLowerHistory, fl.NuLower)
              /\ NuUpperHistory' = Append(NuUpperHistory, fl.NuUpper)
     ELSE UNCHANGED <<tauHistory, WHistory, ThetaHistory,
                      CfLowerHistory, CfUpperHistory, NuLowerHistory, NuUpperHistory>>
  /\ n' = n + 1
  /\ pc' = "loop"
  /\ UNCHANGED <<params, tauFinal, dtau, saveFreq, W, Theta, W_old, Theta_old, iter, maxDiff,
                 kineticEnergy, thermalEnergy, viscousDissipation, jouleHeating, metrics>>
  /\ UNCHANGED <<optVars, valVars, nanoVars, sensVars, uiVars, resVars, collabVars>>

\* lines 392-453: the metrics, the energy histories and the return
Diagnostics ==
  /\ pc = "loop"
  /\ ~StepLoopTest(n, Nt)
  /\ LET en == [t \in 1..Len(WHistory) |-> Energies(params, WHistory[t], ThetaHistory[t])]
     IN  /\ kineticEnergy' = [t \in 1..Len(WHistory) |-> en[t].KE]
         /\ thermalEnergy' = [t \in 1..Len(WHistory) |-> en[t].TE]
         /\ viscousDissipation' = [t \in 1..Len(WHistory) |-> en[t].VD]
         /\ jouleHeating' = [t \in 1..Len(WHistory) |-> en[t].JH]
  /\ metrics' = Metrics(CfLowerHistory, NuLowerHistory, tauHistory, tauFinal)
  /\ pc' = "returned"
  /\ UNCHANGED <<params, tauFinal, dtau, saveFreq, W, Theta, W_old, Theta_old, n, iter, maxDiff,
                 tauHistory, WHistory, ThetaHistory,
                 CfLowerHistory, CfUpperHistory, NuLowerHistory, NuUpperHistory>>
  /\ UNCHANGED <<optVars, valVars, nanoVars, sensVars, uiVars, resVars, collabVars>>

NextSolve == SolveSetup \/ BeginStep \/ PicardIteration \/ CompleteStep \/ Diagnostics

SpecSolve == InitSolve /\ [][NextSolve]_vars

\* the solve has a next statement to run (the enabling condition of
\* NextSolve; the step loop is followed up to MaxSteps steps)
SolveCanStep ==
  \/ pc = "called"
  \/ pc = "loop" /\ (~StepLoopTest(n, Nt) \/ n <= MaxSteps)
  \/ pc = "picard" /\ iter < MaxPicard
  \/ pc = "save"

\* the body of the function runs on as long as it has a next statement:
\* weak fairness WF_vars(NextSolve), with the enabling condition written out
SpecSolveFair ==
  SpecSolve /\ ([]<>(~SolveCanStep) \/ []<><<NextSolve>>_vars)


(***************************************************************************)
(* Properties of the solve                                                 *)
(***************************************************************************)

\* C1: for every parameter set with N >= 1, the state at the initial
\* condition, during and after every time step (converged or not) and in
\* every recorded sample has W[0] = 0 and Theta[0] = 1 exactly.
C1_LowerPlateExact ==
  (params.N >= 1 /\ pc \in {"loop", "picard", "save", "returned"}) =>
    /\ At(W, 0) = 0 /\ At(Theta, 0) = ONE
    /\ \A k \in 1..Len(WHistory) : At(WHistory[k], 0) = 0 /\ At(ThetaHistory[k], 0) = ONE

\* a step that used the whole Picard budget without converging has been
\* completed and recorded, past the initial sample
C1_Witness ==
  /\ params.N >= 2 /\ ~InvalidInput /\ params.Re > 0
  /\ pc = "loop" /\ n > 1
  /\ iter = MaxPicard /\ ~FLt(maxDiff, Tol)
  /\ Len(WHistory) >= 2 /\ WHistory[Len(WHistory)] = W


\* C3: a solve invoked with invalid input (N < 1, dtau <= 0, tauFinal <= 0 or
\* Pr <= 0) fails fast at the call boundary: it never gets past the call
\* except by raising an error, so it runs no step and returns no record.
C3_InvalidInputFailsFast == InvalidInput => pc \in {"called", "threw"}

\* the steps of a solve that are recorded: 0, the multiples of saveFreq up to
\* Nt, and Nt
SavedSteps == {0} \cup {k \in 1..Nt : k % saveFreq = 0} \cup {Nt}

\* the histories kept while stepping
StepHistories ==
  <<tauHistory, WHistory, ThetaHistory,
    CfLowerHistory, CfUpperHistory, NuLowerHistory, NuUpperHistory>>

\* C4: with Nt = floor(tauFinal / dtau) and saveFreq >= 1 the trajectory
\* holds exactly the initial state, every step that is a multiple of
\* saveFreq and the last step Nt, each once and in strictly increasing tau
\* order (the sample of a recorded step is the state at the end of that
\* step); all histories have the same length and every state has N + 1 nodes.
C4_TrajectorySamples ==
  (~InvalidInput /\ saveFreq >= 1 /\ pc \in {"loop", "returned"}) =>
    LET done == IF pc = "returned" THEN Nt ELSE n - 1
        L == Len(tauHistory)
    IN  /\ {tauHistory[j] : j \in 1..L} = {k * dtau : k \in {s \in SavedSteps : s <= done}}
        /\ L = Cardinality({s \in SavedSteps : s <= done})
        /\ \A j \in 1..(L - 1) : tauHistory[j] < tauHistory[j + 1]
        /\ tauHistory[1] = 0 /\ WHistory[1] = InitialW(params)
        /\ ThetaHistory[1] = InitialTheta(params)
        /\ (done \in SavedSteps =>
              /\ tauHistory[L] = done * dtau
              /\ WHistory[L] = W /\ ThetaHistory[L] = Theta)
        /\ \A j \in 1..7 : Len(StepHistories[j]) = L
        /\ \A j \in 1..L : Len(WHistory[j]) = params.N + 1 /\ Len(ThetaHistory[j]) = params.N + 1
        /\ (pc = "returned" =>
              /\ Len(kineticEnergy) = L /\ Len(thermalEnergy) = L
              /\ Len(viscousDissipation) = L /\ Len(jouleHeating) = L)

\* a returned trajectory whose last step is not a multiple of saveFreq, with
\* samples in between
C4_Witness ==
  /\ pc = "returned" /\ ~InvalidInput /\ saveFreq = 2
  /\ Nt = 5 /\ Len(tauHistory) = 4

\* the 1-based indices of the samples whose |Cf_lower| reaches frac * |Cf_final|
ReachedAt(frac) ==
  LET CfFinal == CfLowerHistory[Len(CfLowerHistory)]
  IN  {j \in 1..Len(CfLowerHistory) :
         FGe(FAbs(CfLowerHistory[j]), FMul(frac, FAbs(CfFinal)))}

\* the smallest element of a non-empty set of integers
MinOf(S) == CHOOSE x \in S : \A y \in S : x <= y

\* the tau of the first sample that reaches frac * |Cf_final|, else tauFinal
FirstReachTau(frac) ==
  IF ReachedAt(frac) = {} THEN tauFinal ELSE tauHistory[MinOf(ReachedAt(frac))]

\* C9: tau63 is the tau of the first sample with |Cf_lower| >= 0.63 * |Cf_final|
\* and tau95 that of the first sample with |Cf_lower| >= 0.95 * |Cf_final|;
\* each is tauFinal only if no sample reaches its threshold.
C9_RiseTimes ==
  pc = "returned" =>
    /\ metrics.tau63 = FirstReachTau(Frac63)
    /\ metrics.tau95 = FirstReachTau(Frac95)

\* a returned solve whose skin friction rises: 63% is reached after the first
\* sample, 95% later still and before the last sample
C9_Witness ==
  /\ pc = "returned" /\ ~InvalidInput
  /\ 0 < metrics.tau63 /\ metrics.tau63 < metrics.tau95
  /\ metrics.tau95 < tauHistory[Len(tauHistory)]

\* sample j lies within the 2% band around the final skin friction
InBand(j) ==
  LET CfFinal == CfLowerHistory[Len(CfLowerHistory)]
  IN  FLe(FDiv(FAbs(FSub(CfLowerHistory[j], CfFinal)), FAbs(CfFinal)), Band2)

\* C10: for a valid solve with a non-zero final skin friction, settlingTime
\* is the tau of the earliest sample k such that every sample from k to the
\* end lies within the 2% band; it is tauFinal if the band is violated at
\* the final sample.
C10_SettlingTime ==
  LET L == Len(CfLowerHistory)
      settled == {k \in 1..L : \A j \in k..L : InBand(j)}
  IN  (pc = "returned" /\ ~InvalidInput
         /\ IsFin(CfLowerHistory[L]) /\ CfLowerHistory[L] # 0) =>
        metrics.settlingTime = IF InBand(L) THEN tauHistory[MinOf(settled)] ELSE tauFinal


\* C11: for every parameter set within the data-model bounds, the one with
\* a final lower skin friction of exactly 0 included, the overshoot of a
\* returned solve is a number >= 0, never the result of an undefined
\* division.
C11_OvershootIsNumber ==
  (pc = "returned" /\ ~InvalidInput) =>
    IsFin(metrics.overshoot) /\ metrics.overshoot >= 0

\* C12: the damping label of a returned solve is one of three, chosen from
\* the overshoot alone: Underdamped above 5, otherwise Critically Damped
\* above 0.5, otherwise Overdamped.
C12_DampingClassification ==
  pc = "returned" =>
    /\ metrics.dampingType \in {"Underdamped", "Critically Damped", "Overdamped"}
    /\ metrics.dampingType =
         (IF IsFin(metrics.overshoot) /\ metrics.overshoot > 5 * ONE THEN "Underdamped"
          ELSE IF IsFin(metrics.overshoot) /\ 2 * metrics.overshoot > ONE
               THEN "Critically Damped"
          ELSE "Overdamped")

\* a returned solve whose overshoot lies between the two thresholds
C12_Witness ==
  /\ pc = "returned" /\ ~InvalidInput
  /\ IsFin(metrics.overshoot)
  /\ 2 * metrics.overshoot > ONE /\ metrics.overshoot <= 5 * ONE
  /\ metrics.dampingType = "Critically Damped"


\* the linear Couette profile eta_i * Re / (1 + lambda), rounded once
LinearProfile(p) ==
  [k \in 1..(p.N + 1) |-> RDiv((k - 1) * p.Re * ONE, p.N * (ONE + p.lambda))]

\* x is a number within 1% of the plate speed Re of y
WithinOnePercent(x, y) ==
  IsFin(x) /\ 100 * (IF x < y THEN y - x ELSE x - y) <= params.Re

\* C13: for Ha = 0 and G = 0 the velocity of every sample, the terminal one
\* included, and of every iterate is the linear Couette profile
\* eta_i * Re / (1 + lambda), at interior nodes and at the upper node alike,
\* within 1% of Re.
C13_CouetteProfileIsSteady ==
  (~InvalidInput /\ params.Ha = 0 /\ params.G = 0
     /\ pc \in {"loop", "picard", "save", "returned"}) =>
    /\ \A k \in 1..(params.N + 1) : WithinOnePercent(W[k], LinearProfile(params)[k])
    /\ \A t \in 1..Len(WHistory) : \A k \in 1..(params.N + 1) :
          WithinOnePercent(WHistory[t][k], LinearProfile(params)[k])

\* a returned solve of several steps with Ha = 0, G = 0, a moving upper plate
\* with slip and interior nodes
C13_Witness ==
  /\ pc = "returned" /\ ~InvalidInput
  /\ params.Ha = 0 /\ params.G = 0 /\ params.Re > 0 /\ params.lambda > 0
  /\ params.N >= 2 /\ Len(WHistory) >= 3

\* at least one Picard iteration of the solve has been completed
AfterPicardPass ==
  /\ pc \in {"loop", "picard", "save", "returned"}
  /\ n >= 2 \/ pc = "save" \/ (pc = "picard" /\ iter >= 1)

\* C14: for lambda = 0 the upper-node velocity is W[N] = Re exactly after
\* every Picard iteration and every completed step, and in every sample
\* recorded after a step, whatever W[N - 1] and the other parameters are.
C14_NoSlipUpperPlate ==
  (~InvalidInput /\ params.lambda = 0 /\ AfterPicardPass) =>
    /\ At(W, params.N) = params.Re
    /\ \A t \in 2..Len(WHistory) : At(WHistory[t], params.N) = params.Re

\* a returned solve with lambda = 0 in which the node below the upper plate
\* has moved away from its initial value
C14_Witness ==
  /\ pc = "returned" /\ ~InvalidInput /\ params.lambda = 0
  /\ params.Re > 0 /\ params.N >= 2 /\ Len(WHistory) >= 3
  /\ At(W, params.N - 1) # At(InitialW(params), params.N - 1)

\* the one-sided backward difference (W[N] - W[N - 1]) / h at the upper node
BackwardDifference == FDiv(FSub(At(W, params.N), At(W, params.N - 1)), GridH(params.N))

\* C17: after every completed step the upper-node velocity satisfies
\* W[N] - lambda * (W[N] - W[N - 1]) / h = Re (here: within 1% of Re, for a
\* moving upper plate), for every lambda >= 0.
C17_SlipConditionMinus ==
  (~InvalidInput /\ params.Re > 0 /\ AfterPicardPass /\ pc \in {"loop", "returned"}) =>
    WithinOnePercent(FSub(At(W, params.N), FMul(params.lambda, BackwardDifference)), params.Re)


RECURSIVE Iterated(_, _, _)
\* the state after k more Picard iterations of the current step from state
\* st, with the largest change of each iteration appended to diffs
Iterated(k, st, diffs) ==
  IF k = 0 THEN [W |-> st.W, Theta |-> st.Theta, diffs |-> diffs]
  ELSE CHOOSE res \in {Iterated(k - 1, r, Append(diffs, r.maxDiff)) :
                         r \in {PicardPass(params, dtau, st.W, st.Theta, W_old, Theta_old)}} : TRUE

\* the number of Picard iterations run in the step that has just ended
IterationsRun == IF iter < MaxPicard THEN iter + 1 ELSE MaxPicard

\* C16: each time step runs at least 1 and at most 15 Picard iterations and
\* stops before the 15th only when the largest change of that iteration is
\* below the tolerance; the last iterate is the state of the step, met or
\* not; a solve with dtau > 0 on a grid N >= 1 runs all floor(tauFinal/dtau)
\* steps and returns.
C16_PicardBudget ==
  /\ [](pc = "save" =>
          \E r \in {Iterated(IterationsRun, [W |-> W_old, Theta |-> Theta_old], <<>>)} :
              /\ IterationsRun \in 1..MaxPicard
              /\ W = r.W /\ Theta = r.Theta /\ maxDiff = r.diffs[IterationsRun]
              /\ \A k \in 1..(IterationsRun - 1) : ~FLt(r.diffs[k], Tol)
              /\ IterationsRun < MaxPicard => FLt(maxDiff, Tol))
  /\ ((pc = "called" /\ dtau > 0 /\ params.N >= 1)
        ~> (pc = "returned" /\ n - 1 = (IF Nt > 0 THEN Nt ELSE 0)))

\* a step that used all 15 iterations without meeting the tolerance has
\* ended, its last iterate is the state, and further steps remain to be run
C16_Witness ==
  /\ pc = "loop" /\ ~InvalidInput
  /\ n >= 2 /\ n <= Nt
  /\ iter = MaxPicard /\ ~FLt(maxDiff, Tol)
  /\ W # W_old


(***************************************************************************)
(* TransientOptimizer.optimize as a process                                *)
(***************************************************************************)

\* the options of the model: every option supplied by the caller
OptOptions ==
  {[populationSize |-> ps, generations |-> gn, mutationRate |-> 150] :
      ps \in 1..MaxPop, gn \in 1..MaxGens}

\* new TransientOptimizer(fn, bounds, opts), before optimize is called
InitOpt ==
  /\ \E o \in OptOptions, b \in BoundsSets, f \in FitnessFns :
       /\ opts = o /\ fn = f /\ bounds = b
       /\ popSize = Construct(o).popSize
       /\ gens = Construct(o).gens
       /\ mutRate = Construct(o).mutRate
  /\ pop = <<>> /\ ev = <<>> /\ best = Null /\ bestFit = NInf /\ g = 0
  /\ progress = <<>> /\ timersSet = 0 /\ timersFired = 0 /\ evaluated = {}
  /\ selDraws = 0
  /\ result = <<>> /\ opc = "constructed"
  /\ SolveIdle /\ ValidateIdle /\ NanoIdle /\ SensIdle /\ UiIdle /\ ResIdle /\ CollabIdle

\* lines 554-555: the random first population, best = null, bestFit = -Infinity
OptStart ==
  /\ opc = "constructed"
  /\ \E first \in [1..popSize -> CreateInd(bounds)] : pop' = first
  /\ best' = Null /\ bestFit' = NInf /\ g' = 0
  /\ opc' = IF 0 < gens THEN "eval" ELSE "returned"
  /\ UNCHANGED <<opts, fn, bounds, popSize, gens, mutRate, ev, progress, timersSet, timersFired,
                 evaluated, selDraws, result>>
  /\ UNCHANGED <<solveVars, valVars, nanoVars, sensVars, uiVars, resVars, collabVars>>

\* lines 558-559: the fitness of every individual, the sort and the best so far
OptEvaluate ==
  /\ opc = "eval"
  /\ LET e == Evaluate(fn, pop)
         u == UpdateBest(e, best, bestFit)
     IN  /\ ev' = e
         /\ best' = u.best /\ bestFit' = u.bestFit
  /\ evaluated' = evaluated \cup {pop[k] : k \in 1..Len(pop)}
  /\ opc' = "report"
  /\ UNCHANGED <<opts, fn, bounds, popSize, gens, mutRate, pop, g, progress, timersSet, timersFired,
                 selDraws, result>>
  /\ UNCHANGED <<solveVars, valVars, nanoVars, sensVars, uiVars, resVars, collabVars>>

\* line 560: the progress report of generation g
OptReport ==
  /\ opc = "report"
  /\ progress' = Append(progress, [generation |-> g, totalGenerations |-> gens,
                                   bestFitness |-> bestFit, bestIndividual |-> best])
  /\ opc' = "breed"
  /\ UNCHANGED <<opts, fn, bounds, popSize, gens, mutRate, pop, ev, best, bestFit, g,
                 timersSet, timersFired, evaluated, selDraws, result>>
  /\ UNCHANGED <<solveVars, valVars, nanoVars, sensVars, uiVars, resVars, collabVars>>

\* OptBreed without the await: the next generation follows at once
OptBreed_NoAwait ==
  /\ opc = "breed"
  /\ IF Len(ev) < 2
     THEN /\ opc' = "threw"
          /\ UNCHANGED <<pop, g, selDraws>>
     ELSE /\ \E kids \in [1..(popSize - 2) -> Children(bounds, mutRate, ev)] :
               pop' = <<ev[1].ind, ev[2].ind>> \o kids
          /\ selDraws' = selDraws + 2 * SelDraws * (popSize - 2)
          /\ g' = g + 1
          /\ opc' = IF g + 1 < gens THEN "eval" ELSE "suspended"
  /\ UNCHANGED <<opts, fn, bounds, popSize, gens, mutRate, ev, best, bestFit, progress,
                 timersSet, timersFired, evaluated, result>>
  /\ UNCHANGED <<solveVars, valVars, nanoVars, sensVars, uiVars, resVars, collabVars>>

\* lines 562-568: the next population (the two fittest, then children) and
\* the start of the 20 ms suspension; ev[1].ind throws when ev has one element
OptBreed ==
  /\ opc = "breed"
  /\ IF Len(ev) < 2
     THEN /\ opc' = "threw"
          /\ UNCHANGED <<pop, timersSet, selDraws>>
     ELSE /\ \E kids \in [1..(popSize - 2) -> Children(bounds, mutRate, ev)] :
               pop' = <<ev[1].ind, ev[2].ind>> \o kids
          /\ selDraws' = selDraws + 2 * SelDraws * (popSize - 2)
          /\ timersSet' = timersSet + 1
          /\ opc' = "suspended"
  /\ UNCHANGED <<opts, fn, bounds, popSize, gens, mutRate, ev, best, bestFit, g, progress,
                 timersFired, evaluated, result>>
  /\ UNCHANGED <<solveVars, valVars, nanoVars, sensVars, uiVars, resVars, collabVars>>

\* the timer fires: g++, the loop test, and the return value at line 570
OptResume ==
  /\ opc = "suspended"
  /\ timersFired' = timersFired + 1
  /\ g' = g + 1
  /\ IF g + 1 < gens
     THEN opc' = "eval" /\ UNCHANGED result
     ELSE /\ opc' = "returned"
          /\ result' = [bestIndividual |-> best, bestFitness |-> bestFit]
  /\ UNCHANGED <<opts, fn, bounds, popSize, gens, mutRate, pop, ev, best, bestFit, progress,
                 timersSet, evaluated, selDraws>>
  /\ UNCHANGED <<solveVars, valVars, nanoVars, sensVars, uiVars, resVars, collabVars>>

NextOpt == OptStart \/ OptEvaluate \/ OptReport \/ OptBreed \/ OptResume

SpecOpt == InitOpt /\ [][NextOpt]_vars


(***************************************************************************)
(* Properties of the optimizer                                             *)
(***************************************************************************)

\* C2: the best fitness so far held by optimize never decreases, each report
\* carries the value held when it is made, and the reported values are
\* non-decreasing from one generation to the next.
C2_BestFitnessMonotone ==
  /\ [][/\ FGe(bestFit', bestFit)
        /\ (progress' # progress => progress'[Len(progress')].bestFitness = bestFit')]_vars
  /\ [](\A k \in 1..(Len(progress) - 1) : progress[k].bestFitness <= progress[k + 1].bestFitness)

\* two generations reported, the second with a strictly better best fitness
C2_Witness ==
  /\ Len(progress) >= 2
  /\ progress[2].bestFitness > progress[1].bestFitness

\* the largest element of a non-empty set of integers
MaxOf(S) == CHOOSE x \in S : \A y \in S : x >= y

\* C6: the value returned by optimize has bestFitness equal to the largest
\* fitness obtained by any individual evaluated in any generation, and
\* bestIndividual equal to an evaluated individual that obtained it.
C6_ReturnsBestEvaluated ==
  opc = "returned" =>
    /\ result.bestFitness = MaxOf({fn[i] : i \in evaluated})
    /\ result.bestIndividual \in evaluated
    /\ fn[result.bestIndividual] = result.bestFitness

\* optimize has returned a best individual that was bred in a later
\* generation and is no longer the one reported first
C6_Witness ==
  /\ opc = "returned" /\ Len(progress) >= 2
  /\ result.bestFitness > progress[1].bestFitness
  /\ result.bestIndividual # progress[1].bestIndividual

\* C7: progress is reported once per generation, with generation indices
\* 0, 1, ... in increasing order, each report carrying the best fitness and
\* individual so far; optimize suspends once after each generation, and the
\* evaluation of a generation starts only after the reports of all earlier
\* generations were delivered and every earlier suspension has resumed.
C7_GenerationsInOrder ==
  /\ \A k \in 1..Len(progress) : progress[k].generation = k - 1
  /\ timersFired <= timersSet /\ timersSet <= timersFired + 1
  /\ (opc \in {"eval", "report"} =>
        Len(progress) = g /\ timersSet = g /\ timersFired = g)
  /\ (opc \in {"breed", "suspended"} =>
        /\ Len(progress) = g + 1
        /\ progress[g + 1].bestFitness = bestFit /\ progress[g + 1].bestIndividual = best)
  /\ (opc = "breed" => timersSet = g /\ timersFired = g)
  /\ (opc = "suspended" => timersSet = g + 1 /\ timersFired = g)
  /\ (opc = "returned" =>
        Len(progress) = gens /\ timersSet = gens /\ timersFired = gens /\ g = gens)

\* the second generation is being evaluated after the first was reported and
\* its suspension resumed
C7_Witness ==
  /\ opc = "report" /\ g = 1 /\ Len(progress) = 1
  /\ timersSet = 1 /\ timersFired = 1 /\ popSize >= 3

(***************************************************************************)
(* One call of validateParameters                                          *)
(***************************************************************************)

\* the keys for which PARAMETER_VALIDITY holds an entry
BoundedKeys == {KeyOrder[k] : k \in 1..Len(KeyOrder)}

\* records holding every bounded key and N, with values below, at and
\* above the limits of each key (G also not-a-number)
FullRecords ==
  {[Re |-> re, Ha |-> ha, Pr |-> prn, Ec |-> ec, Bi |-> bi, lambda |-> la, G |-> gr, N |-> 3] :
     re \in {0, 100, 6000}, ha \in {-1000, 0, 11000}, prn \in {500, 6200, 20000},
     ec \in {0, 400, 1100}, bi \in {50, 400, 10000}, la \in {-100, 400, 1000},
     gr \in {500, NaN}}

\* the key sets of the records passed: complete, partial and empty
KeySets == {BoundedKeys \cup {"N"}, {"Ha", "Re"}, {"Ec", "Bi", "N"}, {"N"}, {}}

\* the values of the argument of validateParameters in the model
ValidateInputs == {[k \in S |-> f[k]] : f \in FullRecords, S \in KeySets}

InitValidate ==
  /\ SolveIdle /\ OptIdle /\ NanoIdle /\ SensIdle /\ UiIdle /\ ResIdle /\ CollabIdle
  /\ vparams \in ValidateInputs
  /\ vresult = <<>>
  /\ vpc = "called"

\* validateParameters(params) runs to its return statement
Validate ==
  /\ vpc = "called"
  /\ vresult' = ValidateParameters(vparams)
  /\ vpc' = "returned"
  /\ UNCHANGED <<vparams, solveVars, optVars, nanoVars, sensVars, uiVars, resVars, collabVars>>

NextValidate == Validate

SpecValidate == InitValidate /\ [][NextValidate]_vars

\* value lies within [min, max] of its key, by comparison of the numbers
WithinLimits(key, value) ==
  \/ value = NaN
  \/ PARAMETER_VALIDITY[key].min <= value /\ value <= PARAMETER_VALIDITY[key].max

\* C8: validateParameters returns without throwing and leaves the record it
\* was given as it was; isValid is true exactly when the errors list is
\* empty, which is exactly when every bounded key present in the record is
\* within its minimum and maximum, whatever warnings were recorded.
C8_ValidateIsPure ==
  /\ [](vpc \in {"called", "returned"})
  /\ [](vpc = "returned" =>
          /\ vresult.isValid = (vresult.errors = <<>>)
          /\ vresult.isValid =
               (\A k \in BoundedKeys \cap DOMAIN vparams : WithinLimits(k, vparams[k])))
  /\ [][vparams' = vparams]_vars

\* a record with Ha exactly at its minimum is valid, with warnings
C8_Witness ==
  /\ vpc = "returned"
  /\ "Ha" \in DOMAIN vparams /\ vparams["Ha"] = PARAMETER_VALIDITY["Ha"].min
  /\ vresult.isValid
  /\ vresult.warnings # <<>>

(***************************************************************************)
(* One call of computeNanofluidProperties                                  *)
(***************************************************************************)

\* the volume fractions of the slider: 0 % to 5 % in steps of 0.1 %
PhiValues == 0..50

\* the particle identities passed: those of the database and two others
NanoTypes == DOMAIN NANOPARTICLES \cup {"Custom", "Au"}

InitNano ==
  /\ SolveIdle /\ OptIdle /\ ValidateIdle /\ SensIdle /\ UiIdle /\ ResIdle /\ CollabIdle
  /\ npType \in NanoTypes
  /\ npPhi \in PhiValues
  /\ npResult = <<>>
  /\ npc = "called"

\* computeNanofluidProperties(type, phi) runs to its return statement
ComputeNano ==
  /\ npc = "called"
  /\ npResult' = ComputeNanofluidProperties(npType, npPhi)
  /\ npc' = "returned"
  /\ UNCHANGED <<npType, npPhi, solveVars, optVars, valVars, sensVars, uiVars, resVars, collabVars>>

NextNano == ComputeNano

SpecNano == InitNano /\ [][NextNano]_vars

\* C5: at volume fraction 0 the five ratios returned are all 1, whatever
\* particle identity was passed.
C5_PhiZeroIsIdentity ==
  npc = "returned" /\ npPhi = 0 =>
    npResult = [A1 |-> ONE, A2 |-> ONE, A3 |-> ONE, A4 |-> ONE, A5 |-> ONE]

\* ---- selection, elitism and bounds of the optimizer ----

\* C18: in every generation each parent is chosen by a tournament of exactly
\* 2 random draws from the evaluated population, and two tournaments pick
\* the parents of each child: breeding the popSize - 2 children of a
\* generation draws 2 * 2 candidates per child.
C18_TwoDrawsPerParent ==
  [][opc = "breed" /\ opc' # "threw" => selDraws' = selDraws + 2 * 2 * (popSize - 2)]_vars

\* C19: for every population size >= 1 optimize never fails, the population
\* has popSize individuals in every generation, and each next population
\* starts with the two fittest individuals of the current one, unchanged.
C19_PopulationKeepsSize ==
  /\ [](opc # "threw")
  /\ [](opc \in {"eval", "report", "breed", "suspended", "returned"} => Len(pop) = popSize)
  /\ [][opc = "breed" /\ opc' # "threw" => pop'[1] = ev[1].ind /\ pop'[2] = ev[2].ind]_vars

\* i lies within [min, max] of the bounds in every search dimension
WithinBounds(i) == \A d \in Dims : bounds[d][1] <= i[d] /\ i[d] <= bounds[d][2]

ConstructOptions ==
  {p @@ gn @@ m :
     p \in {<<>>} \cup {[populationSize |-> v] : v \in {0, 1, 3, 20}},
     gn \in {<<>>} \cup {[generations |-> v] : v \in {0, 1, 30}},
     m \in {<<>>} \cup {[mutationRate |-> v] : v \in {0, 150, ONE}}}

\* new TransientOptimizer(fn, bounds, opts) is about to run
InitConstruct ==
  /\ opts \in ConstructOptions
  /\ fn \in FitnessFns /\ bounds \in BoundsSets
  /\ popSize = 0 /\ gens = 0 /\ mutRate = 0
  /\ pop = <<>> /\ ev = <<>> /\ best = Null /\ bestFit = NInf /\ g = 0
  /\ progress = <<>> /\ timersSet = 0 /\ timersFired = 0 /\ evaluated = {}
  /\ selDraws = 0
  /\ result = <<>> /\ opc = "new"
  /\ SolveIdle /\ ValidateIdle /\ NanoIdle /\ SensIdle /\ UiIdle /\ ResIdle /\ CollabIdle

\* lines 526-531: the body of the constructor
NewOptimizer ==
  /\ opc = "new"
  /\ popSize' = Construct(opts).popSize
  /\ gens' = Construct(opts).gens
  /\ mutRate' = Construct(opts).mutRate
  /\ opc' = "constructed"
  /\ UNCHANGED <<opts, fn, bounds, pop, ev, best, bestFit, g, progress, timersSet, timersFired,
                 evaluated, selDraws, result>>
  /\ UNCHANGED <<solveVars, valVars, nanoVars, sensVars, uiVars, resVars, collabVars>>

NextConstruct == NewOptimizer

SpecConstruct == InitConstruct /\ [][NextConstruct]_vars

\* the value the caller configured for key, or the default when the caller
\* supplied none
Configured(key, default) == IF key \in DOMAIN opts THEN opts[key] ELSE default

\* C23: the optimizer runs with exactly the population size, generation
\* count and mutation probability the caller configured, the defaults 20, 30
\* and 0.15 standing in only for values not supplied; with a configured
\* mutation probability of 0, mutate returns every individual unchanged.
C23_ConfiguredOptionsAreUsed ==
  opc = "constructed" =>
    /\ popSize = Configured("populationSize", 20)
    /\ gens = Configured("generations", 30)
    /\ mutRate = Configured("mutationRate", 150)
    /\ (Configured("mutationRate", 150) = 0 =>
          \A i \in Individuals(bounds) : Mutate(bounds, mutRate, i) = {i})

(***************************************************************************)
(* TransientNeuralNetwork.sensitivity                                      *)
(***************************************************************************)

\* const perturbation = 0.1
Perturbation == 100

\* the parameters perturbed, in the order of the array literal
SensKeys == <<"Ha", "Re", "Pr", "Ec", "Bi", "lambda">>

\* the base sets handed over: two values of each perturbed parameter
SensInputs ==
  {[BasePreset EXCEPT !.Ha = ha, !.Re = re, !.Pr = pr, !.Ec = ec, !.Bi = bi, !.lambda = la] :
      ha \in {0, 2000}, re \in {1000, 3000}, pr \in {6200, 7000},
      ec \in {10, 100}, bi \in {500, 1000}, la \in {0, 100}}

\* baseParams[param] * (1 + perturbation)
Perturbed(v) == FMul(v, FAdd(ONE, Perturbation))

InitSens ==
  /\ SolveIdle /\ OptIdle /\ ValidateIdle /\ NanoIdle /\ UiIdle /\ ResIdle /\ CollabIdle
  /\ baseParams \in SensInputs
  /\ passedParams = baseParams
  /\ testParams = <<>> /\ quickSolves = <<>> /\ sensitivities = <<>>
  /\ spc = "called"

\* const baseMetrics = solveQuick(baseParams)
SensBaseline ==
  /\ spc = "called"
  /\ quickSolves' = <<baseParams>>
  /\ spc' = "forEach"
  /\ UNCHANGED <<baseParams, passedParams, testParams, sensitivities>>
  /\ UNCHANGED <<solveVars, optVars, valVars, nanoVars, uiVars, resVars, collabVars>>

\* SensPerturb with testParams an alias of baseParams instead of a copy
SensPerturb_Aliased ==
  /\ spc = "forEach" /\ Len(quickSolves) <= Len(SensKeys)
  /\ LET param == SensKeys[Len(quickSolves)]
         t == [baseParams EXCEPT ![param] = Perturbed(baseParams[param])]
     IN  /\ baseParams' = t
         /\ testParams' = t
         /\ quickSolves' = Append(quickSolves, t)
         /\ sensitivities' = sensitivities @@ (param :> [base |-> quickSolves[1], test |-> t])
  /\ UNCHANGED <<passedParams, spc>>
  /\ UNCHANGED <<solveVars, optVars, valVars, nanoVars, uiVars, resVars, collabVars>>

\* one pass of the forEach callback: the copy, the perturbed parameter, the
\* quick solve of the copy and the entry of sensitivities; the entry is
\* represented by the two parameter sets whose metrics it compares
SensPerturb ==
  /\ spc = "forEach" /\ Len(quickSolves) <= Len(SensKeys)
  /\ LET param == SensKeys[Len(quickSolves)]
         t == [baseParams EXCEPT ![param] = Perturbed(baseParams[param])]
     IN  /\ testParams' = t
         /\ quickSolves' = Append(quickSolves, t)
         /\ sensitivities' = sensitivities @@ (param :> [base |-> quickSolves[1], test |-> t])
  /\ UNCHANGED <<baseParams, passedParams, spc>>
  /\ UNCHANGED <<solveVars, optVars, valVars, nanoVars, uiVars, resVars, collabVars>>

\* return sensitivities
SensReturn ==
  /\ spc = "forEach" /\ Len(quickSolves) > Len(SensKeys)
  /\ spc' = "returned"
  /\ UNCHANGED <<baseParams, passedParams, testParams, quickSolves, sensitivities>>
  /\ UNCHANGED <<solveVars, optVars, valVars, nanoVars, uiVars, resVars, collabVars>>

NextSens == SensBaseline \/ SensPerturb \/ SensReturn

SpecSens == InitSens /\ [][NextSens]_vars

\* C15: sensitivity makes one baseline quick solve of the base set and then
\* one quick solve per parameter of (Ha, Re, Pr, Ec, Bi, lambda), in that
\* order, seven in all at its return; the set of the k-th perturbed solve
\* equals the base set in every parameter except the k-th one, which is 1.1
\* times its base value, and the caller's base set is never modified.
C15_SensitivityPerturbsOneAtATime ==
  /\ baseParams = passedParams
  /\ Len(quickSolves) <= Len(SensKeys) + 1
  /\ (spc = "returned" => Len(quickSolves) = Len(SensKeys) + 1)
  /\ (quickSolves # <<>> => quickSolves[1] = passedParams)
  /\ \A k \in 1..(Len(quickSolves) - 1) :
        /\ DOMAIN quickSolves[k + 1] = DOMAIN passedParams
        /\ quickSolves[k + 1][SensKeys[k]] = RDiv(passedParams[SensKeys[k]] * 11, 10)
        /\ \A key \in DOMAIN passedParams \ {SensKeys[k]} :
              quickSolves[k + 1][key] = passedParams[key]

\* sensitivity has returned after seven quick solves in which every perturbed
\* parameter was non-zero, so that each perturbed set differs from the base
C15_Witness ==
  /\ spc = "returned" /\ Len(quickSolves) = 7
  /\ \A k \in 1..6 : quickSolves[k + 1] # passedParams
  /\ DOMAIN sensitivities = {"Ha", "Re", "Pr", "Ec", "Bi", "lambda"}

(***************************************************************************)
(* Energy integrals                                                        *)
(***************************************************************************)

RECURSIVE TrapezoidFrom(_, _, _)
\* the sum over the cells i, i+1, ... of h * (f[i] + f[i+1]) / 2, for nodal
\* values f[0..N] held in a sequence
TrapezoidFrom(h, f, i) ==
  IF i >= Len(f) - 1 THEN 0
  ELSE FAdd(FMul(h, FAdd(At(f, i), At(f, i + 1))) \div 2, TrapezoidFrom(h, f, i + 1))

\* the trapezoidal rule over the grid of N cells
Trapezoid(N, f) == TrapezoidFrom(GridH(N), f, 0)

\* x and y agree up to the rounding of the sums (1/50 of the unit)
EnergyClose(x, y) == IsFin(x) /\ IsFin(y) /\ x - y <= ONE \div 50 /\ y - x <= ONE \div 50

\* (1/2) W^2 at every node
HalfSquare(Wt) == [k \in 1..Len(Wt) |-> FMul(ONE \div 2, FMul(Wt[k], Wt[k]))]

\* A2 Pr Ec Ha^2 W^2 at every node
JouleDensity(p, Wt) ==
  [k \in 1..Len(Wt) |->
     FMul(FMul(FMul(FMul(FMul(p.A2, p.Pr), p.Ec), p.Ha), p.Ha), FMul(Wt[k], Wt[k]))]

\* C21: at every saved sample the recorded kinetic energy is the
\* trapezoidal-rule integral over the grid of (1/2) W^2.
C21_KineticEnergyTrapezoid ==
  (pc = "returned" /\ ~InvalidInput) =>
    \A t \in 1..Len(WHistory) :
       EnergyClose(kineticEnergy[t], Trapezoid(params.N, HalfSquare(WHistory[t])))

\* C22: at every saved sample the recorded Joule heating rate is the
\* trapezoidal-rule integral over the grid of A2 Pr Ec Ha^2 W^2, both end
\* nodes of every cell weighted equally.
C22_JouleHeatingTrapezoid ==
  (pc = "returned" /\ ~InvalidInput) =>
    \A t \in 1..Len(WHistory) :
       EnergyClose(jouleHeating[t], Trapezoid(params.N, JouleDensity(params, WHistory[t])))

(***************************************************************************)
(* App: particle select and volume-fraction slider                         *)
(***************************************************************************)

\* the values of the particle select: 'Custom' and the keys of NANOPARTICLES
SelectValues == DOMAIN NANOPARTICLES \cup {"Custom"}

\* the slider positions used: 0%, 1%, 2%, 3% and 5% (min 0, max 5)
SliderValues == {0, 10, 20, 30, 50}

InitUi ==
  /\ SolveIdle /\ OptIdle /\ ValidateIdle /\ NanoIdle /\ SensIdle /\ ResIdle /\ CollabIdle
  /\ phi = 20 /\ selectedNP = "Custom" /\ appParams = BasePreset

\* applyNP(t) as created in the render where phi has its current value:
\* the next selectedNP and params
ApplyNP(t) ==
  IF t = "Custom"
  THEN [selectedNP |-> "Custom", params |-> appParams]
  ELSE [selectedNP |-> t, params |-> ComputeNanofluidProperties(t, phi) @@ appParams]

\* line 1960: onChange of the particle select
SelectParticle ==
  /\ \E t \in SelectValues :
        /\ selectedNP' = ApplyNP(t).selectedNP
        /\ appParams' = ApplyNP(t).params
  /\ UNCHANGED phi
  /\ UNCHANGED <<solveVars, optVars, valVars, nanoVars, sensVars, resVars, collabVars>>

\* line 1966: onChange of the slider, setPhi(v / 100) and then applyNP of the
\* same render, whose phi is the value before the change
SlidePhi ==
  /\ \E v \in SliderValues \ {phi} :
        /\ phi' = v
        /\ IF selectedNP # "Custom"
           THEN /\ selectedNP' = ApplyNP(selectedNP).selectedNP
                /\ appParams' = ApplyNP(selectedNP).params
           ELSE UNCHANGED <<selectedNP, appParams>>
  /\ UNCHANGED <<solveVars, optVars, valVars, nanoVars, sensVars, resVars, collabVars>>

NextUi == SelectParticle \/ SlidePhi

SpecUi == InitUi /\ [][NextUi]_vars

\* the five ratios of the parameter record
Ratios(p) == [k \in {"A1", "A2", "A3", "A4", "A5"} |-> p[k]]

\* C24: while a particle other than 'Custom' is selected, every change of
\* the slider leaves A1..A5 of the parameter record equal to
\* computeNanofluidProperties(selected particle, phi) for the new phi.
C24_RatiosFollowSlider ==
  [][(phi' # phi /\ selectedNP # "Custom") =>
        Ratios(appParams') = ComputeNanofluidProperties(selectedNP', phi')]_vars

(***************************************************************************)
(* Ordering of the rise times                                              *)
(***************************************************************************)

MaxCalls == 4

\* the rows the table holds when App mounts
InitialStores == {{}, {1}, {1, 2}}

RECURSIVE NewestFirst(_)
\* .order('created_at', { ascending: false }): ids grow with creation time
NewestFirst(S) ==
  IF S = {} THEN <<>>
  ELSE LET m == CHOOSE x \in S : \A y \in S : x >= y
       IN  <<m>> \o NewestFirst(S \ {m})

\* the ids of a list
Ids(list) == {list[k] : k \in 1..Len(list)}

\* prev.filter(r => r.id !== resultId)
Without(list, id) == SelectSeq(list, LAMBDA r : r # id)

InitRes ==
  /\ SolveIdle /\ OptIdle /\ ValidateIdle /\ NanoIdle /\ SensIdle /\ UiIdle /\ CollabIdle
  /\ store \in InitialStores
  /\ savedResults = <<>> /\ libraryResults = <<>>
  /\ isLoading = FALSE /\ inflight = {} /\ started = 0

\* lines 9-11 and 37-39: saveResult from the Save button (disabled while
\* isLoading), loadResults from the View Saved button ("load") or from the
\* effect of the Results Library tab ("tabLoad"): setIsLoading(true), then
\* the request
StartLoading ==
  /\ started < MaxCalls
  /\ \E kind \in {"save", "load", "tabLoad"} :
        /\ kind = "save" => ~isLoading
        /\ inflight' = inflight \cup {[n |-> started + 1, kind |-> kind, id |-> 2 + started + 1]}
  /\ isLoading' = TRUE
  /\ started' = started + 1
  /\ UNCHANGED <<store, savedResults, libraryResults>>
  /\ UNCHANGED <<solveVars, optVars, valVars, nanoVars, sensVars, uiVars, collabVars>>

\* lines 12-33: the insert answers, with a row or with an error; finally
\* setIsLoading(false)
FinishSave ==
  /\ \E c \in inflight, ok \in BOOLEAN :
        /\ c.kind = "save"
        /\ store' = IF ok THEN store \cup {c.id} ELSE store
        /\ inflight' = inflight \ {c}
  /\ isLoading' = FALSE
  /\ UNCHANGED <<savedResults, libraryResults, started>>
  /\ UNCHANGED <<solveVars, optVars, valVars, nanoVars, sensVars, uiVars, collabVars>>

\* lines 40-56: the select answers, with the rows or with an error (the
\* call then returns []); finally setIsLoading(false); the tab effect puts
\* the value returned into libraryResults (lines 1795-1798)
FinishLoad ==
  /\ \E c \in inflight, ok \in BOOLEAN :
        /\ c.kind \in {"load", "tabLoad"}
        /\ savedResults' = IF ok THEN NewestFirst(store) ELSE savedResults
        /\ libraryResults' = IF c.kind = "tabLoad"
                             THEN (IF ok THEN NewestFirst(store) ELSE <<>>)
                             ELSE libraryResults
        /\ inflight' = inflight \ {c}
  /\ isLoading' = FALSE
  /\ UNCHANGED <<store, started>>
  /\ UNCHANGED <<solveVars, optVars, valVars, nanoVars, sensVars, uiVars, collabVars>>

\* lines 60-65: deleteResult of a result shown in the hook's list ("delete",
\* line 1698) or in the Results Library ("libDelete", line 3149)
StartDelete ==
  /\ started < MaxCalls
  /\ \E kind \in {"delete", "libDelete"} :
       \E id \in (IF kind = "delete" THEN Ids(savedResults) ELSE Ids(libraryResults)) :
          inflight' = inflight \cup {[n |-> started + 1, kind |-> kind, id |-> id]}
  /\ started' = started + 1
  /\ UNCHANGED <<store, savedResults, libraryResults, isLoading>>
  /\ UNCHANGED <<solveVars, optVars, valVars, nanoVars, sensVars, uiVars, collabVars>>

\* lines 66-74: the delete answers; on success the result leaves
\* savedResults, on an error the catch block reports it and the call
\* resolves all the same; the Delete button of the library then filters
\* libraryResults (lines 3149-3151)
FinishDelete ==
  /\ \E c \in inflight, ok \in BOOLEAN :
        /\ c.kind \in {"delete", "libDelete"}
        /\ store' = IF ok THEN store \ {c.id} ELSE store
        /\ savedResults' = IF ok THEN Without(savedResults, c.id) ELSE savedResults
        /\ libraryResults' = IF c.kind = "libDelete"
                             THEN Without(libraryResults, c.id)
                             ELSE libraryResults
        /\ inflight' = inflight \ {c}
  /\ UNCHANGED <<isLoading, started>>
  /\ UNCHANGED <<solveVars, optVars, valVars, nanoVars, sensVars, uiVars, collabVars>>

NextRes == StartLoading \/ FinishSave \/ FinishLoad \/ StartDelete \/ FinishDelete

SpecRes == InitRes /\ [][NextRes]_vars

\* C28: isLoading is true whenever a saveResult or loadResults call is in
\* flight and false whenever none is.
C28_LoadingFlagTracksCalls ==
  isLoading = (\E c \in inflight : c.kind \in {"save", "load", "tabLoad"})

\* C29: when a deleteResult call ends and the result is still in the store
\* (the deletion failed), the result stays both in savedResults and in
\* libraryResults.
C29_FailedDeleteKeepsResult ==
  [][\A c \in inflight \ inflight' :
        (c.kind \in {"delete", "libDelete"} /\ c.id \in store') =>
           /\ (c.id \in Ids(savedResults) => c.id \in Ids(savedResults'))
           /\ (c.id \in Ids(libraryResults) => c.id \in Ids(libraryResults'))]_vars

(***************************************************************************)
(* Collaboration: App's two sync effects and useCollaboration              *)
(***************************************************************************)

\* the number of user edits in one run; the k-th edit sets the parameters
\* to the value k
MaxEdits == 2

\* the number of change payloads that can be on their way to one client
MaxQueue == 2

\* both clients have joined the room and have settled on its parameters
InitCollab ==
  /\ SolveIdle /\ OptIdle /\ ValidateIdle /\ NanoIdle /\ SensIdle /\ UiIdle /\ ResIdle
  /\ roomParams = 0
  /\ localParams = [c \in Clients |-> 0]
  /\ isActive = [c \in Clients |-> TRUE]
  /\ sharedParams = [c \in Clients |-> 0]
  /\ updateTimeout = [c \in Clients |-> NoParams]
  /\ sinceUpdate = [c \in Clients |-> TimerTicks]
  /\ paramsChannel = [c \in Clients |-> <<>>]
  /\ edits = 0
  /\ lastEdit = [c \in Clients |-> NoParams]
  /\ written = [c \in Clients |-> {}]

\* the local-to-shared effect of client c after its params became v (lines
\* 1806-1815) with updateSharedParams (hook lines 195-214): when an active
\* client is more than 100 ms past lastUpdateRef, the pending timer is
\* replaced by one that will write v, and lastUpdateRef is set to now
LocalToShared(c, v) ==
  IF isActive[c] /\ sinceUpdate[c] > GuardTicks
  THEN [updateTimeout |-> [updateTimeout EXCEPT ![c] = v],
        sinceUpdate |-> [sinceUpdate EXCEPT ![c] = 0]]
  ELSE [updateTimeout |-> updateTimeout, sinceUpdate |-> sinceUpdate]

\* the user of client c changes a parameter: setParams and the
\* local-to-shared effect
Edit(c) ==
  /\ edits < MaxEdits
  /\ edits' = edits + 1
  /\ localParams' = [localParams EXCEPT ![c] = edits + 1]
  /\ lastEdit' = [lastEdit EXCEPT ![c] = edits + 1]
  /\ updateTimeout' = LocalToShared(c, edits + 1).updateTimeout
  /\ sinceUpdate' = LocalToShared(c, edits + 1).sinceUpdate
  /\ UNCHANGED <<roomParams, isActive, sharedParams, paramsChannel, written>>
  /\ UNCHANGED <<solveVars, optVars, valVars, nanoVars, sensVars, uiVars, resVars>>

\* 100 ms pass, unless a timer is due
Tick ==
  /\ \A c \in Clients : updateTimeout[c] # NoParams => sinceUpdate[c] < TimerTicks
  /\ \E c \in Clients : sinceUpdate[c] < TimerTicks
  /\ sinceUpdate' = [c \in Clients |->
                       IF sinceUpdate[c] < TimerTicks THEN sinceUpdate[c] + 1 ELSE TimerTicks]
  /\ UNCHANGED <<roomParams, localParams, isActive, sharedParams, updateTimeout,
                 paramsChannel, edits, lastEdit, written>>
  /\ UNCHANGED <<solveVars, optVars, valVars, nanoVars, sensVars, uiVars, resVars>>

\* hook lines 204-213: 500 ms after it was set the timer of client c updates
\* the row, and the change is sent to every subscriber
WriteShared(c) ==
  /\ updateTimeout[c] # NoParams /\ sinceUpdate[c] = TimerTicks
  /\ \A d \in Clients : isActive[d] => Len(paramsChannel[d]) < MaxQueue
  /\ roomParams' = updateTimeout[c]
  /\ written' = [written EXCEPT ![c] = @ \cup {updateTimeout[c]}]
  /\ updateTimeout' = [updateTimeout EXCEPT ![c] = NoParams]
  /\ paramsChannel' = [d \in Clients |->
                         IF isActive[d] THEN Append(paramsChannel[d], updateTimeout[c])
                         ELSE paramsChannel[d]]
  /\ UNCHANGED <<localParams, isActive, sharedParams, sinceUpdate, edits, lastEdit>>
  /\ UNCHANGED <<solveVars, optVars, valVars, nanoVars, sensVars, uiVars, resVars>>

\* hook lines 59-63 and App lines 1779-1787: a change payload reaches client
\* c: setSharedParams, then setParams when the values differ, then the
\* local-to-shared effect of the new params
ReceiveShared(c) ==
  /\ isActive[c] /\ paramsChannel[c] # <<>>
  /\ LET v == Head(paramsChannel[c])
     IN  /\ sharedParams' = [sharedParams EXCEPT ![c] = v]
         /\ paramsChannel' = [paramsChannel EXCEPT ![c] = Tail(@)]
         /\ IF localParams[c] # v
            THEN /\ localParams' = [localParams EXCEPT ![c] = v]
                 /\ updateTimeout' = LocalToShared(c, v).updateTimeout
                 /\ sinceUpdate' = LocalToShared(c, v).sinceUpdate
            ELSE UNCHANGED <<localParams, updateTimeout, sinceUpdate>>
  /\ UNCHANGED <<roomParams, isActive, edits, lastEdit, written>>
  /\ UNCHANGED <<solveVars, optVars, valVars, nanoVars, sensVars, uiVars, resVars>>

\* hook lines 184-187: stopCollaboration of client c completes; the cleanup
\* of the subscription effect unsubscribes its channel (lines 98-101)
StopCollaboration(c) ==
  /\ isActive[c]
  /\ isActive' = [isActive EXCEPT ![c] = FALSE]
  /\ sharedParams' = [sharedParams EXCEPT ![c] = NoParams]
  /\ paramsChannel' = [paramsChannel EXCEPT ![c] = <<>>]
  /\ UNCHANGED <<roomParams, localParams, updateTimeout, sinceUpdate, edits, lastEdit, written>>
  /\ UNCHANGED <<solveVars, optVars, valVars, nanoVars, sensVars, uiVars, resVars>>

NextCollab ==
  \/ Tick
  \/ \E c \in Clients :
        Edit(c) \/ WriteShared(c) \/ ReceiveShared(c) \/ StopCollaboration(c)

SpecCollab == InitCollab /\ [][NextCollab]_vars

\* time passes, timers fire when due and payloads are delivered; user edits
\* and stopping are up to the user
SpecCollabFair ==
  /\ SpecCollab
  /\ WF_vars(Tick)
  /\ \A c \in Clients : WF_vars(WriteShared(c)) /\ WF_vars(ReceiveShared(c))

\* client c has no timer pending and no payload on its way
Settled(c) == updateTimeout[c] = NoParams /\ paramsChannel[c] = <<>>

\* C25: while collaboration is active and only client c edits, the value of
\* its last edit has been written to the room by the time c has nothing
\* pending any more: no local change is dropped for good.
C25_LastEditIsWritten ==
  \A c \in Clients :
     (/\ isActive[c] /\ lastEdit[c] # NoParams /\ Settled(c)
      /\ \A d \in Clients \ {c} : lastEdit[d] = NoParams)
       => lastEdit[c] \in written[c]

\* C26: with both clients active and finitely many edits, the writes to the
\* room come to an end and from then on both clients hold the parameters of
\* the room.
C26_SyncComesToRest ==
  <>[]((\A c \in Clients : isActive[c]) =>
          \A c \in Clients : Settled(c) /\ localParams[c] = roomParams)

\* C27: a client writes to the room only while it is active: no timer of a
\* client fires after its stopCollaboration has completed.
C27_NoWriteAfterStop ==
  [][\A c \in Clients :
        (updateTimeout[c] # NoParams /\ updateTimeout'[c] = NoParams) => isActive[c]]_vars

=============================================================================
